---- MODULE Spec2Model ----
(***************************************************************************)
(* Motion and collision core of the LabExT stage simulation.               *)
(*                                                                         *)
(* SimulatedStage.move_relative / move_absolute compute a synchronized     *)
(* waypoint sequence (__calculate_waypoints) and then step through it; in  *)
(* every step the stage model is moved, Simulation.render_simulation_step  *)
(* runs the stage-stage and the stage-chip collision detection, and the    *)
(* stage's recorded position is set to the waypoint.                       *)
(*                                                                         *)
(* Lengths are integers: one unit of length stands for the micrometre      *)
(* grid of the waypoints, one unit of time for one integration step        *)
(* dt_integration.  Boxes are kept in doubled coordinates so that the      *)
(* half extents of odd sizes stay integral.  Python indices are 0-based,   *)
(* the sequences here are 1-based: Python's a[k] is a[k + 1] here.         *)
(***************************************************************************)
EXTENDS Integers, Sequences, FiniteSets, TLC

\* ---------------------------------------------------------------------------
\* Bounds of the model
\* ---------------------------------------------------------------------------
\* The safety distance of a mesh on its own ranges over 0 .. MaxSafety.
MaxSafety == 2
\* A profile on its own runs between positions in -MaxTravel .. MaxTravel,
\* under a speed limit and an acceleration limit in 1 .. MaxLimit.
MaxTravel == 4
MaxLimit == 3
\* StageModel.build_list creates 0 .. MaxModels stage models.
MaxModels == 3
\* A stage model on its own is repositioned by 0 .. MaxDeltas calls of addPos.
MaxDeltas == 2
\* The devices of the chip in the stress test
MaxDevices == 3
\* Stage coordinates on the X axis range over 0 .. MaxCoord.
MaxCoord == 2
\* The sub sampling rate (parameters.sampling_rate) ranges over 1 .. MaxRate.
MaxRate == 2
\* The axis profiles handed to the synchronization alone have 0 .. MaxLen samples.
MaxLen == 4
\* A render of one step takes 0 .. MaxRender ticks of the wall clock.
MaxRender == 2
\* A calibration of an absolute view has 0 .. MaxPairs pairs of points.
MaxPairs == 2

\* ---------------------------------------------------------------------------
\* Program constants (scaled to the integer grid)
\* ---------------------------------------------------------------------------
\* dt_integration: the distance in time of two samples of a profile.
Dt == 1
\* StageModel.fiber_diameter and StageModel.fiber_length.
FiberDiameter == 2
FiberLength == 4
\* ChipModel.chip_width.
ChipWidth == 4
\* Parameters.fiber_safety_distance and Parameters.chip_safety_distance.
FiberSafetyDistance == 1
ChipSafetyDistance == 1
\* Axis limits of the stages: get_speed_xy, get_speed_z, get_acceleration_xy.
SpeedXY == 1
SpeedZ == 1
AccelerationXY == 1

Stages == {"LEFT", "RIGHT"}
\* Simulation.stage_models is a dict: its values are iterated in the order in
\* which the models were created.
StageOrder == <<"LEFT", "RIGHT">>

\* The positions a stage is commanded to: X in 0 .. MaxCoord, Z in 0 .. 1, and
\* Y in 0 .. 1 for the left stage; the right stage keeps its Y.
Workspace(s) ==
    {<<x, y, z>> : x \in 0..MaxCoord, y \in (IF s = "LEFT" THEN 0..1 ELSE {0}), z \in 0..1}

\* ---------------------------------------------------------------------------
\* Vectors
\* ---------------------------------------------------------------------------
Abs(n) == IF n < 0 THEN -n ELSE n
Min(a, b) == IF a <= b THEN a ELSE b
Max(a, b) == IF a >= b THEN a ELSE b
Sign(n) == IF n < 0 THEN -1 ELSE IF n > 0 THEN 1 ELSE 0

VecAdd(a, b) == <<a[1] + b[1], a[2] + b[2], a[3] + b[3]>>
VecSub(a, b) == <<a[1] - b[1], a[2] - b[2], a[3] - b[3]>>

\* ---------------------------------------------------------------------------
\* Views (views.py): rotations are quarter turns about the Z axis
\* ---------------------------------------------------------------------------
\* Rotation.apply for a rotation of `turns` quarter turns about Z.
RotationApply(turns, v) ==
    CASE turns % 4 = 0 -> v
      [] turns % 4 = 1 -> <<-v[2], v[1], v[3]>>
      [] turns % 4 = 2 -> <<-v[1], -v[2], v[3]>>
      [] turns % 4 = 3 -> <<v[2], -v[1], v[3]>>

\* Faulty variant of RotationApplyInverse: the inverse flag is not passed on
RotationApplyForward(turns, v) == RotationApply(turns, v)

\* Rotation.apply(..., inverse=True)
RotationApplyInverse(turns, v) == RotationApply(4 - (turns % 4), v)

\* RelativeView.model_to_world
RelativeModelToWorld(view, model_coordinates) ==
    RotationApply(view.rotation, model_coordinates)

\* Faulty variant of AbsoluteModelToWorld: the model offset is taken off after
\* the rotation
AbsoluteModelToWorldLateOffset(view, model_coordinates) ==
    VecAdd(VecSub(RotationApply(view.rotation, model_coordinates), view.model_offset),
           view.world_offset)

\* AbsoluteView.model_to_world
AbsoluteModelToWorld(view, model_coordinates) ==
    VecAdd(RotationApply(view.rotation, VecSub(model_coordinates, view.model_offset)),
           view.world_offset)

\* AbsoluteView.world_to_model
AbsoluteWorldToModel(view, world_coordinates) ==
    VecAdd(RotationApplyInverse(view.rotation, VecSub(world_coordinates, view.world_offset)),
           view.model_offset)

\* RelativeView.world_to_model
RelativeWorldToModel(view, world_coordinates) ==
    RotationApplyInverse(view.rotation, world_coordinates)

\* points.mean(axis=0) of a list of points that is not empty
RECURSIVE VecSum(_)
VecSum(points) ==
    IF Len(points) = 0
    THEN <<0, 0, 0>>
    ELSE VecAdd(points[1], VecSum(Tail(points)))

Mean(points) ==
    <<VecSum(points)[1] \div Len(points), VecSum(points)[2] \div Len(points),
      VecSum(points)[3] \div Len(points)>>

\* The mean of the points is a point of the integer grid.
MeanOnGrid(points) ==
    \A k \in 1..3 : VecSum(points)[k] % Len(points) = 0

Dot(a, b) == a[1] * b[1] + a[2] * b[2] + a[3] * b[3]

\* Rotation.align_vectors(a, b): the rotation R for which the vectors R b[i]
\* are nearest to the vectors a[i] in the sum of the squared distances, that
\* is, for which the sum of a[i] . R b[i] is largest; of several such
\* rotations the one of the fewest quarter turns.
AlignmentScore(turns, a, b) ==
    VecSum([i \in 1..Len(a) |-> <<Dot(a[i], RotationApply(turns, b[i])), 0, 0>>])[1]

AlignVectors(a, b) ==
    CHOOSE r \in 0..3 :
        /\ \A q \in 0..3 : AlignmentScore(r, a, b) >= AlignmentScore(q, a, b)
        /\ \A q \in 0..(r - 1) : AlignmentScore(q, a, b) < AlignmentScore(r, a, b)

\* AbsoluteView.__init__ for lists of the same length that are not empty
AbsoluteViewInit(model_coordinates, world_coordinates) ==
    [rotation |-> AlignVectors(
                     [i \in 1..Len(world_coordinates) |->
                         VecSub(world_coordinates[i], Mean(world_coordinates))],
                     [i \in 1..Len(model_coordinates) |->
                         VecSub(model_coordinates[i], Mean(model_coordinates))]),
     model_offset |-> Mean(model_coordinates),
     world_offset |-> Mean(world_coordinates)]

\* The views the stage models were built with (StageModel.build): the left
\* stage's frame is the world frame, the right stage faces it, turned by half
\* a turn and mounted further along X.
absolute_view(s) ==
    IF s = "LEFT"
    THEN [rotation |-> 0, model_offset |-> <<0, 0, 0>>, world_offset |-> <<0, 0, 0>>]
    ELSE [rotation |-> 2, model_offset |-> <<0, 0, 0>>, world_offset |-> <<6, 1, 0>>]

\* RelativeView: the unit vectors it is built with are those of the stage's
\* axes in the world frame, the rotation of the stage's absolute view.
relative_view(s) == [rotation |-> absolute_view(s).rotation]

\* ---------------------------------------------------------------------------
\* Collision volumes (models.py)
\* ---------------------------------------------------------------------------
\* vedo Box(pos, length, width, height): the axis-aligned box centred on pos
\* with the sizes length (X), width (Y), height (Z); lo and hi are doubled.
Box(pos, length, width, height) ==
    [lo |-> <<2 * pos[1] - length, 2 * pos[2] - width, 2 * pos[3] - height>>,
     hi |-> <<2 * pos[1] + length, 2 * pos[2] + width, 2 * pos[3] + height>>]

\* Faulty variant of Intersects: the boxes overlap along some axis
IntersectsAnyAxis(a, b) ==
    \E k \in 1..3 : a.lo[k] < b.hi[k] /\ b.lo[k] < a.hi[k]

\* mesh.boolean("intersect", other).points().size > 0: the two boxes share a
\* volume (boxes that only touch are taken not to intersect).
Intersects(a, b) ==
    \A k \in 1..3 : a.lo[k] < b.hi[k] /\ b.lo[k] < a.hi[k]

\* StageModel.is_vertically_oriented
is_vertically_oriented(orientation) == orientation = "LEFT" \/ orientation = "RIGHT"

\* StageModel._get_mesh_box_center
GetMeshBoxCenter(orientation, view_position) ==
    LET pos == VecAdd(view_position, <<0, 0, FiberLength \div 2>>)
    IN CASE orientation = "LEFT" ->
              VecAdd(pos, <<-(FiberLength \div 2) + FiberDiameter \div 2, 0, 0>>)
         [] orientation = "RIGHT" ->
              VecAdd(pos, <<FiberLength \div 2 - FiberDiameter \div 2, 0, 0>>)
         [] orientation = "BOTTOM" ->
              VecAdd(pos, <<0, -(FiberLength \div 2) + FiberDiameter \div 2, 0>>)
         [] orientation = "TOP" ->
              VecAdd(pos, <<0, FiberLength \div 2 - FiberDiameter \div 2, 0>>)

\* StageModel.mesh_position of the legacy models (src/src/Models.py)
LegacyMeshPosition(orientation, stage_position) ==
    LET position == VecAdd(stage_position, <<0, 0, FiberLength \div 2>>)
    IN CASE orientation = "LEFT" ->
              VecAdd(position, <<-(FiberLength \div 2) + FiberDiameter \div 2, 0, 0>>)
         [] orientation = "RIGHT" ->
              VecAdd(position, <<FiberLength \div 2 + FiberDiameter \div 2, 0, 0>>)
         [] orientation = "BOTTOM" ->
              VecAdd(position, <<0, -(FiberLength \div 2) + FiberDiameter \div 2, 0>>)
         [] orientation = "TOP" ->
              VecAdd(position, <<0, FiberLength \div 2 + FiberDiameter \div 2, 0>>)

\* StageModel._create_fiber_mesh, as the box around a mesh position
FiberMesh(orientation, mesh_pos) ==
    Box(mesh_pos,
        IF is_vertically_oriented(orientation) THEN FiberLength ELSE FiberDiameter,
        IF is_vertically_oriented(orientation) THEN FiberDiameter ELSE FiberLength,
        FiberLength)

\* Faulty variant of SafetyDistanceMesh: width and length change places
SafetyDistanceMeshSwapped(orientation, mesh_pos, safety_distance) ==
    LET diameter_safety == FiberDiameter + 2 * safety_distance
        length_safety == FiberLength + 2 * safety_distance
    IN Box(mesh_pos,
           IF is_vertically_oriented(orientation) THEN diameter_safety ELSE length_safety,
           IF is_vertically_oriented(orientation) THEN length_safety ELSE diameter_safety,
           FiberLength)

\* StageModel._create_safety_distance_mesh, as the box around a mesh position
SafetyDistanceMesh(orientation, mesh_pos, safety_distance) ==
    LET diameter_safety == FiberDiameter + 2 * safety_distance
        length_safety == FiberLength + 2 * safety_distance
    IN Box(mesh_pos,
           IF is_vertically_oriented(orientation) THEN length_safety ELSE diameter_safety,
           IF is_vertically_oriented(orientation) THEN diameter_safety ELSE length_safety,
           FiberLength)

\* ChipModel.position: the mean of the coupler coordinates of the chip.
ChipPosition == <<5, 1, 2>>

\* Faulty variant of ChipSafetyDistanceMesh: the cube is centred the safety
\* distance below the chip
ChipSafetyDistanceMeshCentred(safety_distance) ==
    Box(VecAdd(ChipPosition, <<0, 0, -safety_distance>>), ChipWidth, ChipWidth, ChipWidth)

\* ChipModel._create_safety_distance_mesh
ChipSafetyDistanceMesh(safety_distance) ==
    LET pos == VecAdd(ChipPosition, <<0, 0, -safety_distance - ChipWidth \div 2>>)
    IN Box(pos, ChipWidth, ChipWidth, ChipWidth)

\* ---------------------------------------------------------------------------
\* Motion profile (LabExT.Movement.MotorProfiles)
\* ---------------------------------------------------------------------------
\* The positions of a trapezoidal velocity profile from pos (moving at speed v)
\* to stop, found by integration in steps of Dt: the speed grows by the
\* acceleration up to the maximum speed, is reduced again when the target is
\* near, and the last sample is the target.
IntegrationStep(state, stop, max_speed, acceleration) ==
    IF state[1] = stop
    THEN state
    ELSE LET remaining == Abs(stop - state[1])
             faster == Min(state[2] + acceleration, max_speed)
             braking == Max(acceleration, remaining \div 2)
             speed == Min(Min(faster, braking), remaining)
         IN <<state[1] + Sign(stop - state[1]) * speed, speed>>

\* The position and the speed after n steps of the integration; the steps are
\* taken in two halves, and no step is taken once the position is stop.
RECURSIVE IntegrationSteps(_, _, _, _, _)
IntegrationSteps(n, state, stop, max_speed, acceleration) ==
    IF n = 0 THEN state
    ELSE IF n = 1 THEN IntegrationStep(state, stop, max_speed, acceleration)
    ELSE LET half == IntegrationSteps(n \div 2, state, stop, max_speed, acceleration)
         IN IF half[1] = stop
            THEN half
            ELSE IntegrationSteps(n - n \div 2, half, stop, max_speed, acceleration)

\* The samples of the profile: the positions after 1, 2, ... steps, up to the
\* step that arrives at stop.
Integrate(pos, v, stop, max_speed, acceleration) ==
    LET at(k) == IntegrationSteps(k, <<pos, v>>, stop, max_speed, acceleration)[1]
        steps == Cardinality({k \in 0..(Abs(stop - pos) - 1) : at(k) # stop})
    IN [k \in 1..steps |-> at(k)]

\* trapezoidal_velocity_profile_by_integration: the time points t and the
\* positions s of one axis; both are empty when start = stop.
trapezoidal_velocity_profile_by_integration(start, stop, max_speed, acceleration) ==
    LET s == Integrate(start, 0, stop, max_speed, acceleration)
    IN [t |-> [k \in 1..Len(s) |-> (k - 1) * Dt], s |-> s]

\* ---------------------------------------------------------------------------
\* Waypoint synchronization (SimulatedStage.__calculate_waypoints)
\* ---------------------------------------------------------------------------
\* a[::step]: the elements at the Python indices 0, step, 2 step, ...
Subsample(a, step) ==
    [k \in 1..((Len(a) + step - 1) \div step) |-> a[(k - 1) * step + 1]]

\* Faulty variant of LongestTimeVector: the first vector that is not empty
FirstTimeVector(tx, ty, tz) ==
    IF Len(tx) > 0 THEN tx
    ELSE IF Len(ty) > 0 THEN ty
    ELSE tz

\* max(tx, ty, tz, key=lambda t: t.size): the first of the longest vectors
LongestTimeVector(tx, ty, tz) ==
    IF Len(tx) >= Len(ty) /\ Len(tx) >= Len(tz) THEN tx
    ELSE IF Len(ty) >= Len(tz) THEN ty
    ELSE tz

\* np.append(t_max[::int(sampling_rate)], t_max[-1])
SubsampleTime(t_max, sampling_rate) ==
    Append(Subsample(t_max, sampling_rate), t_max[Len(t_max)])

\* Faulty variant of SubsampleAxis: the final sample is not appended
SubsampleAxisOnly(xs, target, sampling_rate) ==
    IF Len(xs) = 0 THEN <<target>> ELSE Subsample(xs, sampling_rate)

\* np.append(xs[::int(sampling_rate)], target if xs.size == 0 else xs[-1])
SubsampleAxis(xs, target, sampling_rate) ==
    Append(Subsample(xs, sampling_rate), IF Len(xs) = 0 THEN target ELSE xs[Len(xs)])

\* Faulty variant of PadTail: np.pad with its default constant_values of 0
PadTailZeros(x, size) ==
    [k \in 1..size |-> IF k <= Len(x) THEN x[k] ELSE 0]

\* np.pad(x, (0, size - x.size), mode='constant', constant_values=x[-1]);
\* the caller has checked that the pad width size - x.size is not negative.
PadTail(x, size) ==
    [k \in 1..size |-> IF k <= Len(x) THEN x[k] ELSE x[Len(x)]]

\* The result of __calculate_waypoints for the three axis profiles:
\*   error = "None"        all time vectors are empty: the function returns None;
\*   error = "ValueError"  np.pad is given a negative pad width, or
\*                         np.column_stack columns of different lengths;
\*   error = "none"        t and the columns x, y, z of the position matrix.
SynchronizeWaypoints(segs, target, sampling_rate) ==
    LET tx == segs[1].t
        ty == segs[2].t
        tz == segs[3].t
        Failed(e) == [error |-> e, t |-> << >>, x |-> << >>, y |-> << >>, z |-> << >>]
    IN IF Len(tx) = 0 /\ Len(ty) = 0 /\ Len(tz) = 0
       THEN Failed("None")
       ELSE LET t == SubsampleTime(LongestTimeVector(tx, ty, tz), sampling_rate)
                x0 == SubsampleAxis(segs[1].s, target[1], sampling_rate)
                y0 == SubsampleAxis(segs[2].s, target[2], sampling_rate)
                z0 == SubsampleAxis(segs[3].s, target[3], sampling_rate)
            IN IF Len(t) < Len(x0) \/ Len(t) < Len(y0) \/ Len(t) < Len(z0)
               THEN Failed("ValueError")
               ELSE LET x == PadTail(x0, Len(t))
                        y == PadTail(y0, Len(t))
                        z == PadTail(z0, Len(t))
                    IN IF Len(x) # Len(y) \/ Len(y) # Len(z)
                       THEN Failed("ValueError")
                       ELSE [error |-> "none", t |-> t, x |-> x, y |-> y, z |-> z]

\* Faulty variant of AxisProfiles: the profile of Z runs to the target of Y
AxisProfilesCopiedTarget(position, target) ==
    <<trapezoidal_velocity_profile_by_integration(position[1], target[1], SpeedXY, AccelerationXY),
      trapezoidal_velocity_profile_by_integration(position[2], target[2], SpeedXY, AccelerationXY),
      trapezoidal_velocity_profile_by_integration(position[3], target[2], SpeedZ, AccelerationXY)>>

\* The three axis profiles of a move from position to target.
AxisProfiles(position, target) ==
    <<trapezoidal_velocity_profile_by_integration(position[1], target[1], SpeedXY, AccelerationXY),
      trapezoidal_velocity_profile_by_integration(position[2], target[2], SpeedXY, AccelerationXY),
      trapezoidal_velocity_profile_by_integration(position[3], target[3], SpeedZ, AccelerationXY)>>

\* SimulatedStage.__calculate_waypoints
CalculateWaypoints(position, target, sampling_rate) ==
    SynchronizeWaypoints(AxisProfiles(position, target), target, sampling_rate)

\* p[i] of the position matrix np.column_stack((x, y, z)), i counted from 1
Row(w, i) == <<w.x[i], w.y[i], w.z[i]>>

\* ---------------------------------------------------------------------------
\* State
\* ---------------------------------------------------------------------------
VARIABLES
    parameters,            \* Simulation.parameters
    chip_model,            \* Simulation.chip_model: "None" or "ChipModel"
    position,              \* SimulatedStage._position of every stage
    model,                 \* the StageModel of every stage: model_position,
                           \* view_position, whether it has its meshes
                           \* (has_mesh) and their position (mesh_pos)
    stage_collision,       \* Simulation.stage_collision
    chip_collision,        \* Simulation.chip_collision
    stage_collision_text,  \* the text of Simulation.stage_collision_text
    chip_collision_text,   \* the text of Simulation.chip_collision_text
    move,                  \* the move_relative / move_absolute call in progress
    last_call,             \* how the last move call ended
    last_sleep,            \* the last call of sleep() in the loop of the move call
    probe                  \* the arguments and the results of a function that
                           \* is evaluated on its own

vars == <<parameters, chip_model, position, model, stage_collision, chip_collision,
          stage_collision_text, chip_collision_text, move, last_call, last_sleep,
          probe>>

\* No function is being evaluated on its own.
NoProbe == [kind |-> "none"]

\* No sleep() has been called in the loop of the move call.
NoSleep == [called |-> FALSE, render_time |-> 0, delay |-> 0]

\* No move call is in progress.
NoMove ==
    [stage |-> "none", kind |-> "none", start |-> << >>, target |-> << >>,
     segs |-> << >>, t |-> << >>, x |-> << >>, y |-> << >>, z |-> << >>, i |-> 0]

\* The _safety_distance_mesh of a stage model, as a box in the world frame
SafetyBox(s, m) == SafetyDistanceMesh(s, m.mesh_pos, parameters.fiber_safety_distance)

\* Faulty variant of are_colliding: only the mesh of self is looked at
are_colliding_self_guard(s1, m1, s2, m2) ==
    IF ~m1.has_mesh
    THEN FALSE
    ELSE ~m2.has_mesh \/ Intersects(SafetyBox(s1, m1), SafetyBox(s2, m2))

\* StageModel.are_colliding: False when one of the two models has no
\* _safety_distance_mesh, and else whether the two meshes intersect
are_colliding(s1, m1, s2, m2) ==
    IF ~m1.has_mesh \/ ~m2.has_mesh
    THEN FALSE
    ELSE Intersects(SafetyBox(s1, m1), SafetyBox(s2, m2))

\* ChipModel.is_stage_colliding
is_stage_colliding(s, m) ==
    IF ~m.has_mesh
    THEN FALSE
    ELSE Intersects(ChipSafetyDistanceMesh(parameters.chip_safety_distance), SafetyBox(s, m))

\* itertools.combinations(self.stage_models.values(), 2), as pairs of indices
StagePairs ==
    {pr \in (1..Len(StageOrder)) \X (1..Len(StageOrder)) : pr[1] < pr[2]}

\* Simulation._detect_stage_collision on the stage models ms: the new values
\* of stage_collision_text and of stage_collision.
DetectStageCollision(ms, flag) ==
    IF \E pr \in StagePairs :
          are_colliding(StageOrder[pr[1]], ms[StageOrder[pr[1]]],
                        StageOrder[pr[2]], ms[StageOrder[pr[2]]])
    THEN [text |-> "STAGE-STAGE COLLISION DETECTED", flag |-> TRUE]
    ELSE [text |-> "No collision detected", flag |-> flag]

\* The loop of Simulation._detect_chip_collision from the k-th stage model on;
\* acc holds the text and the flag as the earlier iterations left them.
RECURSIVE ChipCollisionLoop(_, _, _)
ChipCollisionLoop(k, ms, acc) ==
    IF k > Len(StageOrder)
    THEN acc
    ELSE ChipCollisionLoop(k + 1, ms,
            IF is_stage_colliding(StageOrder[k], ms[StageOrder[k]])
            THEN [text |-> "CHIP-STAGE COLLISION DETECTED", flag |-> TRUE]
            ELSE [text |-> "No collision detected", flag |-> acc.flag])

\* Simulation._detect_chip_collision: the new values of chip_collision_text
\* and of chip_collision.
DetectChipCollision(ms, text, flag) ==
    IF chip_model = "None"
    THEN [text |-> text, flag |-> flag]
    ELSE ChipCollisionLoop(1, ms, [text |-> text, flag |-> flag])

\* Simulation.render_simulation_step on the stage models ms
RenderSimulationStep(ms) ==
    /\ stage_collision_text' = DetectStageCollision(ms, stage_collision).text
    /\ stage_collision' = DetectStageCollision(ms, stage_collision).flag
    /\ chip_collision_text' =
          DetectChipCollision(ms, chip_collision_text, chip_collision).text
    /\ chip_collision' = DetectChipCollision(ms, chip_collision_text, chip_collision).flag

\* StageModel.addPos of a model whose relative_view is view
StageModelAddPos(view, m, model_delta) ==
    LET view_delta == RelativeModelToWorld(view, model_delta)
    IN [has_mesh |-> m.has_mesh,
        model_position |-> VecAdd(m.model_position, model_delta),
        view_position |-> VecAdd(m.view_position, view_delta),
        mesh_pos |-> VecAdd(m.mesh_pos, view_delta)]

\* StageModel.pos of a model of the given orientation whose absolute_view is
\* view
StageModelPos(view, orientation, m, model_position) ==
    LET view_position == AbsoluteModelToWorld(view, model_position)
    IN [has_mesh |-> m.has_mesh,
        model_position |-> model_position,
        view_position |-> view_position,
        mesh_pos |-> GetMeshBoxCenter(orientation, view_position)]

\* Faulty variant of addPos: the meshes and the view position are moved,
\* self.model_position is left as it is
addPosMeshesOnly(s, m, model_delta) ==
    [StageModelAddPos(relative_view(s), m, model_delta)
        EXCEPT !.model_position = m.model_position]

\* StageModel.addPos: the meshes and the view position move by the delta as
\* the relative view sees it, the model position by the delta itself.
addPos(s, m, model_delta) == StageModelAddPos(relative_view(s), m, model_delta)

\* StageModel.pos: the meshes are put where the absolute view sees the
\* model position.
pos(s, m, model_position) == StageModelPos(absolute_view(s), s, m, model_position)

\* StageModel.set_simulation_parameters followed by StageModel.mesh, as
\* Simulation._set_stage_model_meshes calls them for a stage at stage_position
PlacedModel(s, stage_position) ==
    LET view_position == AbsoluteModelToWorld(absolute_view(s), stage_position)
    IN [has_mesh |-> TRUE,
        model_position |-> stage_position,
        view_position |-> view_position,
        mesh_pos |-> GetMeshBoxCenter(s, view_position)]

\* Where the stages are when the simulation starts (_find_model_position).
StartPosition(s) == <<0, 0, 1>>

\* ---------------------------------------------------------------------------
\* Init: the state Simulation.start_simulation leaves
\* ---------------------------------------------------------------------------
Init ==
    /\ \E rate \in 1..MaxRate :
          parameters = [realtime |-> FALSE,
                        fiber_safety_distance |-> FiberSafetyDistance,
                        chip_safety_distance |-> ChipSafetyDistance,
                        sampling_rate |-> rate]
    /\ chip_model = "ChipModel"
    /\ position = [s \in Stages |-> StartPosition(s)]
    /\ model = [s \in Stages |-> PlacedModel(s, StartPosition(s))]
    /\ stage_collision = FALSE
    /\ chip_collision = FALSE
    /\ stage_collision_text = "No stage collision detected"
    /\ chip_collision_text = "No chip collision detected"
    /\ move = NoMove
    /\ last_call = "none"
    /\ last_sleep = NoSleep
    /\ probe = NoProbe

\* ---------------------------------------------------------------------------
\* Actions
\* ---------------------------------------------------------------------------
\* Faulty variant of CallerIsFree: a call is taken while another is in its loop
CallerAlwaysFree == TRUE

\* A move call runs its loop to the end before it returns: the caller can
\* make a call only when no call is in progress.
CallerIsFree == move.stage = "none"

\* Faulty variant of Raise: the collision flags are cleared on the way out
RaiseResetting(e) ==
    /\ last_call' = e
    /\ stage_collision' = FALSE
    /\ chip_collision' = FALSE
    /\ UNCHANGED <<probe, parameters, chip_model, position, model,
                   stage_collision_text, chip_collision_text, move, last_sleep>>

\* The call raises the exception e; nothing else changes.
Raise(e) ==
    /\ last_call' = e
    /\ UNCHANGED <<probe, parameters, chip_model, position, model, stage_collision,
                   chip_collision, stage_collision_text, chip_collision_text, move,
                   last_sleep>>

\* t, p = self.__calculate_waypoints(target), and the entry of the loop.
\* When __calculate_waypoints returns None the unpacking raises a TypeError.
StartMove(s, kind, target) ==
    LET segs == AxisProfiles(position[s], target)
        w == SynchronizeWaypoints(segs, target, parameters.sampling_rate)
    IN IF w.error = "None" THEN Raise("TypeError")
       ELSE IF w.error # "none" THEN Raise(w.error)
       ELSE /\ last_call' = "running"
            /\ move' = [stage |-> s, kind |-> kind, start |-> position[s],
                        target |-> target, segs |-> segs,
                        t |-> w.t, x |-> w.x, y |-> w.y, z |-> w.z, i |-> 0]
            /\ UNCHANGED <<probe, parameters, chip_model, position, model, stage_collision,
                           chip_collision, stage_collision_text, chip_collision_text,
                           last_sleep>>

\* SimulatedStage.move_relative up to the entry of its loop
MoveRelative(s, delta, wait_for_stopping) ==
    /\ CallerIsFree
    /\ IF ~wait_for_stopping
       THEN Raise("RuntimeError")
       ELSE StartMove(s, "relative", VecAdd(position[s], delta))

\* SimulatedStage.move_absolute up to the entry of its loop
MoveAbsolute(s, target, wait_for_stopping) ==
    /\ CallerIsFree
    /\ IF ~wait_for_stopping
       THEN Raise("RuntimeError")
       ELSE StartMove(s, "absolute", target)

\* Faulty variant of MovedModels: the meshes are shared, every stage model
\* takes the update
MovedModelsShared(s, kind, waypoint) ==
    [o \in Stages |-> IF kind = "relative"
                      THEN addPos(o, model[o], VecSub(waypoint, position[s]))
                      ELSE pos(o, model[o], waypoint)]

\* self.model.addPos(p[i] - self.position) in move_relative, and
\* self.model.pos(p[i]) in move_absolute: the stage models after the call
MovedModels(s, kind, waypoint) ==
    [model EXCEPT ![s] = IF kind = "relative"
                         THEN addPos(s, model[s], VecSub(waypoint, position[s]))
                         ELSE pos(s, model[s], waypoint)]

\* render_time = time() - render_start: the time the model update and the
\* render of a step take, in ticks
RenderTimes == 0..MaxRender

\* time() is finer than the time grid of the waypoints: render times and
\* delays are counted in ticks, RenderResolution of them to one unit of t.
RenderResolution == 2

\* current_ts at the start of an iteration: 0.0 in the first, and then the
\* time point t[i] of the iteration before
CurrentTs == IF move.i = 0 THEN 0 ELSE move.t[move.i]

\* Faulty variant of Pace: the delay is not clamped at 0
PaceUnclamped(render_time) ==
    IF parameters.realtime
    THEN [called |-> TRUE, render_time |-> render_time,
          delay |-> RenderResolution * (move.t[move.i + 1] - CurrentTs) - render_time]
    ELSE last_sleep

\* if self.simulation.parameters.realtime:
\*     sleep(max(t[i] - current_ts - render_time, 0))
Pace(render_time) ==
    IF parameters.realtime
    THEN [called |-> TRUE, render_time |-> render_time,
          delay |-> Max(RenderResolution * (move.t[move.i + 1] - CurrentTs) - render_time, 0)]
    ELSE last_sleep

\* Faulty variant of LoopIteration: the loop is left when the step shows a collision
LoopIterationHalting(s, kind, waypoint, render_time) ==
    /\ model' = MovedModels(s, kind, waypoint)
    /\ RenderSimulationStep(model')
    /\ position' = [position EXCEPT ![s] = waypoint]
    /\ move' = IF \/ DetectStageCollision(model', FALSE).flag
                  \/ DetectChipCollision(model', "", FALSE).flag
               THEN NoMove
               ELSE [move EXCEPT !.i = @ + 1]
    /\ last_call' = IF move' = NoMove THEN "returned" ELSE last_call
    /\ last_sleep' = Pace(render_time)
    /\ UNCHANGED <<probe, parameters, chip_model>>

\* Faulty variant of LoopIteration: the stage's position is not set to the waypoint
LoopIterationStale(s, kind, waypoint, render_time) ==
    /\ model' = MovedModels(s, kind, waypoint)
    /\ RenderSimulationStep(model')
    /\ move' = [move EXCEPT !.i = @ + 1]
    /\ last_sleep' = Pace(render_time)
    /\ UNCHANGED <<probe, parameters, chip_model, last_call, position>>

\* Faulty variant of LoopIteration: the step is rendered before the model is moved
LoopIterationRenderFirst(s, kind, waypoint, render_time) ==
    /\ RenderSimulationStep(model)
    /\ model' = MovedModels(s, kind, waypoint)
    /\ position' = [position EXCEPT ![s] = waypoint]
    /\ move' = [move EXCEPT !.i = @ + 1]
    /\ last_sleep' = Pace(render_time)
    /\ UNCHANGED <<probe, parameters, chip_model, last_call>>

\* Faulty variant of LoopIteration: a frame is dropped after a render that took
\* time
LoopIterationFrameDrop(s, kind, waypoint, render_time) ==
    /\ model' = MovedModels(s, kind, waypoint)
    /\ RenderSimulationStep(model')
    /\ position' = [position EXCEPT ![s] = waypoint]
    /\ move' = [move EXCEPT !.i = IF render_time > 0 /\ @ + 2 <= Len(move.t)
                                  THEN @ + 2
                                  ELSE @ + 1]
    /\ last_sleep' = Pace(render_time)
    /\ UNCHANGED <<probe, parameters, chip_model, last_call>>

\* One iteration of the loop of move_relative (addPos) or move_absolute (pos):
\* the model is moved to the waypoint, the step is rendered with the collision
\* detection on the moved models, and the stage's position becomes the waypoint.
LoopIteration(s, kind, waypoint, render_time) ==
    /\ model' = MovedModels(s, kind, waypoint)
    /\ RenderSimulationStep(model')
    /\ position' = [position EXCEPT ![s] = waypoint]
    /\ move' = [move EXCEPT !.i = @ + 1]
    /\ last_sleep' = Pace(render_time)
    /\ UNCHANGED <<probe, parameters, chip_model, last_call>>

\* for i in pb.range(): the next iteration, while there is one
Step ==
    /\ move.stage # "none"
    /\ move.i < Len(move.t)
    /\ \E render_time \in RenderTimes :
          LoopIteration(move.stage, move.kind, Row(move, move.i + 1), render_time)

\* The loop has run t.size times: the call returns.
Finish ==
    /\ move.stage # "none"
    /\ move.i >= Len(move.t)
    /\ move' = NoMove
    /\ last_call' = "returned"
    /\ last_sleep' = NoSleep
    /\ UNCHANGED <<probe, parameters, chip_model, position, model, stage_collision,
                   chip_collision, stage_collision_text, chip_collision_text>>

\* The displacements of the relative moves: none, or one unit along one axis
\* (as Calibration.wiggle_axis moves a stage), staying in the workspace
Displacements(s) ==
    {d \in {VecSub(target, position[s]) : target \in Workspace(s)} :
        Abs(d[1]) + Abs(d[2]) + Abs(d[3]) <= 1}

\* The requests: every move with wait_for_stopping, and, as a call without
\* wait_for_stopping raises before it looks at its target, one such call of
\* either kind for every stage.
Next ==
    \/ \E s \in Stages : \E delta \in Displacements(s) : MoveRelative(s, delta, TRUE)
    \/ \E s \in Stages : \E target \in Workspace(s) : MoveAbsolute(s, target, TRUE)
    \/ \E s \in Stages : MoveRelative(s, <<0, 0, 0>>, FALSE)
    \/ \E s \in Stages : MoveAbsolute(s, position[s], FALSE)
    \/ Step
    \/ Finish

Spec == Init /\ [][Next]_vars

\* The loop of a move call keeps running until it ends.
FairSpec == Spec /\ WF_vars(Step) /\ WF_vars(Finish)

\* ---------------------------------------------------------------------------
\* The waypoint synchronization on its own: any three axis profiles on the
\* time grid of the integration, of 0 .. MaxLen samples each
\* ---------------------------------------------------------------------------
\* A profile of axis a with n samples, ending at AxisGoal(a, n); the samples
\* of different axes and of different indices differ.
AxisSegment(a, n) ==
    [t |-> [k \in 1..n |-> (k - 1) * Dt], s |-> [k \in 1..n |-> 10 * a + k]]

\* The commanded target of axis a: where its profile of n samples ends, and
\* the position it holds when it does not move.
AxisGoal(a, n) == 10 * a + n

SyncInit ==
    /\ \E rate \in 1..MaxRate :
          parameters = [realtime |-> FALSE,
                        fiber_safety_distance |-> FiberSafetyDistance,
                        chip_safety_distance |-> ChipSafetyDistance,
                        sampling_rate |-> rate]
    /\ \E nx \in 0..MaxLen, ny \in 0..MaxLen, nz \in 0..MaxLen :
          move = [NoMove EXCEPT
                    !.kind = "pending",
                    !.segs = <<AxisSegment(1, nx), AxisSegment(2, ny), AxisSegment(3, nz)>>,
                    !.target = <<AxisGoal(1, nx), AxisGoal(2, ny), AxisGoal(3, nz)>>]
    /\ chip_model = "ChipModel"
    /\ position = [s \in Stages |-> StartPosition(s)]
    /\ model = [s \in Stages |-> PlacedModel(s, StartPosition(s))]
    /\ stage_collision = FALSE
    /\ chip_collision = FALSE
    /\ stage_collision_text = "No stage collision detected"
    /\ chip_collision_text = "No chip collision detected"
    /\ last_call = "none"
    /\ last_sleep = NoSleep
    /\ probe = NoProbe

\* __calculate_waypoints from the profiles on: it returns t and p, returns
\* None, or raises.
Synchronize ==
    /\ move.kind = "pending"
    /\ IF SynchronizeWaypoints(move.segs, move.target, parameters.sampling_rate).error = "none"
       THEN /\ move' = [move EXCEPT
                   !.kind = "synchronized",
                   !.t = SynchronizeWaypoints(move.segs, move.target, parameters.sampling_rate).t,
                   !.x = SynchronizeWaypoints(move.segs, move.target, parameters.sampling_rate).x,
                   !.y = SynchronizeWaypoints(move.segs, move.target, parameters.sampling_rate).y,
                   !.z = SynchronizeWaypoints(move.segs, move.target, parameters.sampling_rate).z]
            /\ last_call' = "returned"
       ELSE /\ move' = [move EXCEPT !.kind = "failed"]
            /\ last_call' =
                  SynchronizeWaypoints(move.segs, move.target, parameters.sampling_rate).error
    /\ UNCHANGED <<probe, parameters, chip_model, position, model, stage_collision,
                   chip_collision, stage_collision_text, chip_collision_text, last_sleep>>

SyncNext == Synchronize

SyncSpec == SyncInit /\ [][SyncNext]_vars

\* ---------------------------------------------------------------------------
\* StageModel.are_colliding on its own: any two stage models, with or without
\* their meshes
\* ---------------------------------------------------------------------------
\* All variables but probe.
simulation_vars ==
    <<parameters, chip_model, position, model, stage_collision, chip_collision,
      stage_collision_text, chip_collision_text, move, last_call, last_sleep>>

\* The simulation as start_simulation leaves it, with the default parameters.
SimulationStarted ==
    /\ parameters = [realtime |-> FALSE,
                     fiber_safety_distance |-> FiberSafetyDistance,
                     chip_safety_distance |-> ChipSafetyDistance,
                     sampling_rate |-> 1]
    /\ chip_model = "ChipModel"
    /\ position = [s \in Stages |-> StartPosition(s)]
    /\ model = [s \in Stages |-> PlacedModel(s, StartPosition(s))]
    /\ stage_collision = FALSE
    /\ chip_collision = FALSE
    /\ stage_collision_text = "No stage collision detected"
    /\ chip_collision_text = "No chip collision detected"
    /\ move = NoMove
    /\ last_call = "none"
    /\ last_sleep = NoSleep

\* Orientation
Orientations == {"LEFT", "RIGHT", "TOP", "BOTTOM"}

\* A stage model after StageModel.__init__: it has no meshes and no position
\* (the positions of the record are not read).
UnplacedModel ==
    [has_mesh |-> FALSE, model_position |-> <<0, 0, 0>>,
     view_position |-> <<0, 0, 0>>, mesh_pos |-> <<0, 0, 0>>]

\* A stage model of orientation o after StageModel.mesh at view_position
MeshedModel(o, view_position) ==
    [has_mesh |-> TRUE, model_position |-> view_position,
     view_position |-> view_position, mesh_pos |-> GetMeshBoxCenter(o, view_position)]

\* The stage models of the probes: without meshes, or standing on a grid wide
\* enough for envelopes that intersect and for envelopes that do not.
ProbeModels ==
    {[orientation |-> o, model |-> UnplacedModel] : o \in Orientations}
    \cup {[orientation |-> o, model |-> MeshedModel(o, <<4 * x, 4 * y, 0>>)] :
            o \in Orientations, x \in 0..MaxCoord, y \in 0..MaxCoord}

CollideInit ==
    /\ SimulationStarted
    /\ \E a \in ProbeModels, b \in ProbeModels :
          probe = [kind |-> "models", a |-> a, b |-> b]

\* a.are_colliding(b) and b.are_colliding(a)
ProbeCollision ==
    /\ probe.kind = "models"
    /\ probe' = [kind |-> "are_colliding", a |-> probe.a, b |-> probe.b,
                 ab |-> are_colliding(probe.a.orientation, probe.a.model,
                                      probe.b.orientation, probe.b.model),
                 ba |-> are_colliding(probe.b.orientation, probe.b.model,
                                      probe.a.orientation, probe.a.model)]
    /\ UNCHANGED simulation_vars

CollideNext == ProbeCollision

CollideSpec == CollideInit /\ [][CollideNext]_vars

\* ---------------------------------------------------------------------------
\* Two stages far apart: the left stage A stands at X = 0, the right stage B
\* faces it from X = 10,000; the safety envelopes are 300 wide.  One unit of
\* length stands for 50 here.
\* ---------------------------------------------------------------------------
\* The distance of the two stages along X, 10,000, and the safety distance
\* that makes the envelope FiberDiameter + 2 * safety distance = 300 wide
ScenarioDistance == 200
ScenarioSafetyDistance == 2

\* Where stage A is moved to: X = 100 and X = 9,950
ScenarioNear == <<2, 0, 1>>
ScenarioFar == <<199, 0, 1>>

\* The positions the stages start at, in their own coordinates
ScenarioStart(s) ==
    IF s = "LEFT"
    THEN <<0, 0, 1>>
    ELSE AbsoluteWorldToModel(absolute_view("RIGHT"), <<ScenarioDistance, 0, 1>>)

ScenarioInit ==
    /\ \E rate \in 1..MaxRate :
          parameters = [realtime |-> FALSE,
                        fiber_safety_distance |-> ScenarioSafetyDistance,
                        chip_safety_distance |-> ChipSafetyDistance,
                        sampling_rate |-> rate]
    /\ chip_model = "None"
    /\ position = [s \in Stages |-> ScenarioStart(s)]
    /\ model = [s \in Stages |-> PlacedModel(s, ScenarioStart(s))]
    /\ stage_collision = FALSE
    /\ chip_collision = FALSE
    /\ stage_collision_text = "No stage collision detected"
    /\ chip_collision_text = "No chip collision detected"
    /\ move = NoMove
    /\ last_call = "none"
    /\ last_sleep = NoSleep
    /\ probe = NoProbe

\* One move of stage A from where it starts, and the steps of that move
ScenarioNext ==
    \/ /\ position["LEFT"] = ScenarioStart("LEFT")
       /\ MoveAbsolute("LEFT", ScenarioNear, TRUE)
    \/ /\ position["LEFT"] = ScenarioStart("LEFT")
       /\ MoveAbsolute("LEFT", ScenarioFar, TRUE)
    \/ Step
    \/ Finish

ScenarioSpec == ScenarioInit /\ [][ScenarioNext]_vars

\* ---------------------------------------------------------------------------
\* The views on their own: an absolute view is fitted to the pairs of points
\* of a calibration, a relative view is built from unit vectors, and points
\* are transformed with the view
\* ---------------------------------------------------------------------------
\* The points of the calibrations
CalibrationPoints == {<<0, 0, 0>>, <<2, 0, 0>>, <<0, 2, 0>>, <<2, 2, 2>>}

\* The lists of 0 .. MaxPairs points whose mean, if they have one, is on the grid
CalibrationLists ==
    {l \in UNION {[1..n -> CalibrationPoints] : n \in 0..MaxPairs} :
        Len(l) > 0 => MeanOnGrid(l)}

\* The points that are transformed
TestPoints == {<<0, 0, 0>>, <<1, 2, 3>>, <<-2, 1, 0>>}

NoView == [rotation |-> 0, model_offset |-> <<0, 0, 0>>, world_offset |-> <<0, 0, 0>>]

\* What AbsoluteView.__init__ comes to.  It checks nothing itself: for lists
\* of different lengths and for empty lists numpy or Rotation.align_vectors
\* raises a ValueError; for a single pair the centred vectors are zero, which
\* align_vectors, depending on its version, rejects with a ValueError or
\* answers with the identity; any other lists give a view.
FitOutcomes(model_coordinates, world_coordinates) ==
    IF Len(model_coordinates) # Len(world_coordinates) \/ Len(model_coordinates) = 0
    THEN {[error |-> "ValueError", view |-> NoView]}
    ELSE IF Len(model_coordinates) = 1
    THEN {[error |-> "ValueError", view |-> NoView],
          [error |-> "none",
           view |-> AbsoluteViewInit(model_coordinates, world_coordinates)]}
    ELSE {[error |-> "none",
           view |-> AbsoluteViewInit(model_coordinates, world_coordinates)]}

\* Rotation.from_matrix(np.column_stack((x_unit, y_unit, z_unit)))
FromMatrix(x_unit, y_unit, z_unit) ==
    CHOOSE r \in 0..3 :
        /\ RotationApply(r, <<1, 0, 0>>) = x_unit
        /\ RotationApply(r, <<0, 1, 0>>) = y_unit
        /\ RotationApply(r, <<0, 0, 1>>) = z_unit

\* View.model_to_world and View.world_to_model of the view of a probe
ModelToWorld(type, view, model_coordinates) ==
    IF type = "absolute"
    THEN AbsoluteModelToWorld(view, model_coordinates)
    ELSE RelativeModelToWorld(view, model_coordinates)

WorldToModel(type, view, world_coordinates) ==
    IF type = "absolute"
    THEN AbsoluteWorldToModel(view, world_coordinates)
    ELSE RelativeWorldToModel(view, world_coordinates)

ViewInit ==
    /\ SimulationStarted
    /\ \/ \E mc \in CalibrationLists, wc \in CalibrationLists :
             probe = [kind |-> "calibration",
                      model_coordinates |-> mc, world_coordinates |-> wc]
       \/ \E r \in 0..3 :
             probe = [kind |-> "unit_vectors",
                      x_unit |-> RotationApply(r, <<1, 0, 0>>),
                      y_unit |-> RotationApply(r, <<0, 1, 0>>),
                      z_unit |-> RotationApply(r, <<0, 0, 1>>)]

\* AbsoluteView(model_coordinates, world_coordinates)
AbsoluteViewBuild ==
    /\ probe.kind = "calibration"
    /\ \E outcome \in FitOutcomes(probe.model_coordinates, probe.world_coordinates) :
          probe' = [kind |-> IF outcome.error = "none" THEN "view" ELSE "failed",
                    type |-> "absolute",
                    error |-> outcome.error,
                    view |-> outcome.view,
                    model_coordinates |-> probe.model_coordinates,
                    world_coordinates |-> probe.world_coordinates]
    /\ UNCHANGED simulation_vars

\* RelativeView(x_unit, y_unit, z_unit)
RelativeViewBuild ==
    /\ probe.kind = "unit_vectors"
    /\ probe' = [kind |-> "view",
                 type |-> "relative",
                 error |-> "none",
                 view |-> [rotation |-> FromMatrix(probe.x_unit, probe.y_unit, probe.z_unit),
                           model_offset |-> <<0, 0, 0>>, world_offset |-> <<0, 0, 0>>],
                 model_coordinates |-> <<probe.x_unit, probe.y_unit, probe.z_unit>>,
                 world_coordinates |-> << >>]
    /\ UNCHANGED simulation_vars

\* model_to_world and world_to_model of a point, and of what they return
Transform ==
    /\ probe.kind = "view"
    /\ \E p \in TestPoints \cup {probe.view.model_offset, probe.view.world_offset} :
          probe' = [kind |-> "mapped",
                    type |-> probe.type,
                    view |-> probe.view,
                    model_coordinates |-> probe.model_coordinates,
                    world_coordinates |-> probe.world_coordinates,
                    p |-> p,
                    to_world |-> ModelToWorld(probe.type, probe.view, p),
                    to_model |-> WorldToModel(probe.type, probe.view, p),
                    to_model_of_to_world |->
                        WorldToModel(probe.type, probe.view,
                                     ModelToWorld(probe.type, probe.view, p)),
                    to_world_of_to_model |->
                        ModelToWorld(probe.type, probe.view,
                                     WorldToModel(probe.type, probe.view, p))]
    /\ UNCHANGED simulation_vars

ViewNext ==
    \/ AbsoluteViewBuild
    \/ RelativeViewBuild
    \/ Transform

ViewSpec == ViewInit /\ [][ViewNext]_vars

\* ---------------------------------------------------------------------------
\* The moves of one stage with and without real-time pacing
\* ---------------------------------------------------------------------------
PaceInit ==
    /\ \E rate \in 1..MaxRate, realtime \in BOOLEAN :
          parameters = [realtime |-> realtime,
                        fiber_safety_distance |-> FiberSafetyDistance,
                        chip_safety_distance |-> ChipSafetyDistance,
                        sampling_rate |-> rate]
    /\ chip_model = "ChipModel"
    /\ position = [s \in Stages |-> StartPosition(s)]
    /\ model = [s \in Stages |-> PlacedModel(s, StartPosition(s))]
    /\ stage_collision = FALSE
    /\ chip_collision = FALSE
    /\ stage_collision_text = "No stage collision detected"
    /\ chip_collision_text = "No chip collision detected"
    /\ move = NoMove
    /\ last_call = "none"
    /\ last_sleep = NoSleep
    /\ probe = NoProbe

PaceNext ==
    \/ \E target \in Workspace("LEFT") : MoveAbsolute("LEFT", target, TRUE)
    \/ \E delta \in Displacements("LEFT") : MoveRelative("LEFT", delta, TRUE)
    \/ Step
    \/ Finish

PaceSpec == PaceInit /\ [][PaceNext]_vars

\* ---------------------------------------------------------------------------
\* The moves of one stage, and a KeyboardInterrupt that ends a move call
\* before its loop has run to the end
\* ---------------------------------------------------------------------------
\* The interrupt is raised between two iterations of the loop (at time(),
\* sleep() or the progress bar): the call is left with everything as the
\* iterations before have left it.
AbandonBetweenSteps ==
    /\ move.stage # "none"
    /\ move.i < Len(move.t)
    /\ move' = NoMove
    /\ last_call' = "KeyboardInterrupt"
    /\ last_sleep' = NoSleep
    /\ UNCHANGED <<probe, parameters, chip_model, position, model, stage_collision,
                   chip_collision, stage_collision_text, chip_collision_text>>

\* The interrupt is raised within an iteration, after self.model.addPos(...)
\* or self.model.pos(p[i]) and before self._position = p[i]: during the render,
\* before or after the collision detection. In the first iteration of
\* move_relative the in-place += of addPos writes through to _position when
\* both are views of one row of the waypoints of an earlier move_absolute.
\* Interrupts within a step are followed up on a stage whose model stands
\* where the stage is, which keeps the model positions bounded.
AbandonInStep ==
    /\ move.stage # "none"
    /\ move.i < Len(move.t)
    /\ model[move.stage].model_position = position[move.stage]
    /\ model' = MovedModels(move.stage, move.kind, Row(move, move.i + 1))
    /\ \/ RenderSimulationStep(model')
       \/ UNCHANGED <<stage_collision, chip_collision, stage_collision_text,
                      chip_collision_text>>
    /\ \/ position' = position
       \/ /\ move.kind = "relative"
          /\ move.i = 0
          /\ position' = [position EXCEPT ![move.stage] = Row(move, 1)]
    /\ move' = NoMove
    /\ last_call' = "KeyboardInterrupt"
    /\ last_sleep' = NoSleep
    /\ UNCHANGED <<probe, parameters, chip_model>>

CancelNext ==
    \/ \E target \in Workspace("LEFT") : MoveAbsolute("LEFT", target, TRUE)
    \/ \E delta \in Displacements("LEFT") : MoveRelative("LEFT", delta, TRUE)
    \/ Step
    \/ Finish
    \/ AbandonBetweenSteps
    \/ AbandonInStep

CancelSpec == Init /\ [][CancelNext]_vars

\* ---------------------------------------------------------------------------
\* A stage model on its own, repositioned by addPos and by pos
\* ---------------------------------------------------------------------------
\* The deltas of the calls of addPos
ModelDeltas == {<<1, 0, 0>>, <<0, 1, 0>>, <<0, 0, 1>>, <<-1, -1, 0>>}

\* The absolute views of the stage models: a quarter-turn rotation and a
\* world offset
ModelAbsoluteViews ==
    {[rotation |-> r, model_offset |-> <<0, 0, 0>>, world_offset |-> w] :
        r \in 0..3, w \in {<<0, 0, 0>>, <<6, 1, 0>>}}

\* StageModel.set_simulation_parameters followed by StageModel.mesh, for a
\* model of the given orientation whose absolute_view is view
StageModelPlaced(view, orientation, model_position) ==
    [has_mesh |-> TRUE,
     model_position |-> model_position,
     view_position |-> AbsoluteModelToWorld(view, model_position),
     mesh_pos |-> GetMeshBoxCenter(orientation, AbsoluteModelToWorld(view, model_position))]

\* StageModel.build: the orientation, the absolute view and the unit vectors
\* of the relative view are three inputs.  set_simulation_parameters and mesh
\* then place the model: its view position is the one its absolute view
\* gives to its model position.
RepositionInit ==
    /\ SimulationStarted
    /\ \E o \in Orientations, a \in ModelAbsoluteViews, r \in 0..3 :
          probe = [kind |-> "stage_model",
                   orientation |-> o,
                   absolute_view |-> a,
                   relative_view |-> [rotation |-> r],
                   placed |-> StageModelPlaced(a, o, <<0, 0, 0>>),
                   n |-> 0,
                   by_addPos |-> StageModelPlaced(a, o, <<0, 0, 0>>),
                   by_pos |-> StageModelPlaced(a, o, <<0, 0, 0>>)]

\* One more addPos(delta) on the model, and the single pos(...) of the model
\* as it was placed to the sum of the deltas so far
Reposition ==
    /\ probe.kind = "stage_model"
    /\ probe.n < MaxDeltas
    /\ \E delta \in ModelDeltas :
          probe' = [probe EXCEPT
                      !.n = @ + 1,
                      !.by_addPos = StageModelAddPos(probe.relative_view, @, delta),
                      !.by_pos = StageModelPos(probe.absolute_view, probe.orientation,
                                               probe.placed,
                                               VecAdd(probe.by_pos.model_position, delta))]
    /\ UNCHANGED simulation_vars

RepositionNext == Reposition

RepositionSpec == RepositionInit /\ [][RepositionNext]_vars

\* ---------------------------------------------------------------------------
\* The meshes of a stage model and of the chip on their own
\* ---------------------------------------------------------------------------
\* The two stage models of the repository: labext_simulation/models.py and
\* the legacy src/Models.py
Implementations == {"labext_simulation", "legacy"}

\* The position the fiber mesh and the safety distance mesh are created at
MeshPosition(implementation, orientation, stage_position) ==
    IF implementation = "legacy"
    THEN LegacyMeshPosition(orientation, stage_position)
    ELSE GetMeshBoxCenter(orientation, stage_position)

MeshInit ==
    /\ SimulationStarted
    /\ \E i \in Implementations, o \in Orientations, d \in 0..MaxSafety,
          x \in -1..1, y \in -1..1, z \in 0..1 :
          probe = [kind |-> "stage", implementation |-> i, orientation |-> o,
                   safety_distance |-> d, view_position |-> <<x, y, z>>]

\* _create_fiber_mesh and _create_safety_distance_mesh of the stage model
CreateMeshes ==
    /\ probe.kind = "stage"
    /\ probe' = [kind |-> "meshes",
                 implementation |-> probe.implementation,
                 orientation |-> probe.orientation,
                 safety_distance |-> probe.safety_distance,
                 view_position |-> probe.view_position,
                 mesh_pos |-> MeshPosition(probe.implementation, probe.orientation,
                                           probe.view_position),
                 fiber_mesh |->
                    FiberMesh(probe.orientation,
                              MeshPosition(probe.implementation, probe.orientation,
                                           probe.view_position)),
                 safety_distance_mesh |->
                    SafetyDistanceMesh(probe.orientation,
                                       MeshPosition(probe.implementation, probe.orientation,
                                                    probe.view_position),
                                       probe.safety_distance)]
    /\ UNCHANGED simulation_vars

MeshNext == CreateMeshes

MeshSpec == MeshInit /\ [][MeshNext]_vars

\* ---------------------------------------------------------------------------
\* The creation of the stage models and the assignment of stages to them
\* ---------------------------------------------------------------------------
\* The stages connected to the computer (mover.available_stages) and the
\* ports of the mover (DevicePort)
RealStages == {"stage 1", "stage 2"}
DevicePorts == {"INPUT", "OUTPUT"}

\* No object: a key of stage_models without a model, an orientation without
\* a calibration.
None == [id |-> 0]

\* The mover (LabExT's MoverNew) is not part of the repository.  The simulation
\* finds the stage of a model by mover._get_calibration(orientation=...): the
\* mover keeps one calibration for an orientation.
CalibrationKey(orientation, port) == orientation

\* Faulty variant of NewSimulatedStage: every simulated stage is given the
\* first model that was created
NewSimulatedStageFirstModel(stage, stage_model) ==
    [id |-> 1, stage |-> stage,
     model |-> [id |-> 1, orientation |-> stage_model.orientation]]

\* SimulatedStage(stage, self.simulation, model)
NewSimulatedStage(stage, stage_model) ==
    [id |-> 1, stage |-> stage, model |-> stage_model]

AssignInit ==
    /\ SimulationStarted
    /\ probe = [kind |-> "build_list",
                created |-> 0,
                stage_models |-> [o \in Orientations |-> None],
                calibrations |-> [k \in Orientations \cup DevicePorts |-> None],
                error |-> "none"]

\* StageModel.build_list: one more StageModel.build().  The models are
\* numbered as they are created; in {m.orientation: m for m in ...} a later
\* model takes the key of an earlier one of its orientation.
BuildStageModel ==
    /\ probe.kind = "build_list"
    /\ probe.created < MaxModels
    /\ \E o \in Orientations :
          probe' = [probe EXCEPT !.created = @ + 1,
                                 !.stage_models[o] = [id |-> probe.created + 1,
                                                      orientation |-> o]]
    /\ UNCHANGED simulation_vars

\* The user creates no further model: Simulation.build returns the simulation.
BuildSimulation ==
    /\ probe.kind = "build_list"
    /\ probe' = [probe EXCEPT !.kind = "simulation"]
    /\ UNCHANGED simulation_vars

\* SimulationManager.assign_stage: a stage and one of stage_models.values()
\* are chosen, and the mover is given a new SimulatedStage for the model's
\* orientation.  The mover either refuses a second calibration of the
\* orientation, or it puts the new one in the place of the one it had.
AssignStage ==
    /\ probe.kind = "simulation"
    /\ \E o \in Orientations : probe.stage_models[o] # None
    /\ \E stage \in RealStages, o \in Orientations, port \in DevicePorts :
          /\ probe.stage_models[o] # None
          /\ \/ /\ probe.calibrations[CalibrationKey(o, port)] # None
                /\ probe' = [probe EXCEPT !.error = "MoverError"]
             \/ probe' = [probe EXCEPT
                            !.error = "none",
                            !.calibrations[CalibrationKey(o, port)] =
                                NewSimulatedStage(stage, probe.stage_models[o])]
    /\ UNCHANGED simulation_vars

AssignNext ==
    \/ BuildStageModel
    \/ BuildSimulation
    \/ AssignStage

AssignSpec == AssignInit /\ [][AssignNext]_vars

\* ---------------------------------------------------------------------------
\* The profile of one axis on its own, and the moves of one stage that
\* consume the profiles
\* ---------------------------------------------------------------------------
ProfileInit ==
    \/ Init
    \/ /\ SimulationStarted
       /\ \E start \in -MaxTravel..MaxTravel, stop \in -MaxTravel..MaxTravel,
             max_speed \in 1..MaxLimit, acceleration \in 1..MaxLimit :
             probe = [kind |-> "limits", start |-> start, stop |-> stop,
                      max_speed |-> max_speed, acceleration |-> acceleration]

\* trapezoidal_velocity_profile_by_integration(start, stop, max_speed,
\* acceleration)
ProfileAxis ==
    /\ probe.kind = "limits"
    /\ probe' = [kind |-> "profile", start |-> probe.start, stop |-> probe.stop,
                 max_speed |-> probe.max_speed, acceleration |-> probe.acceleration,
                 t |-> trapezoidal_velocity_profile_by_integration(
                          probe.start, probe.stop, probe.max_speed, probe.acceleration).t,
                 s |-> trapezoidal_velocity_profile_by_integration(
                          probe.start, probe.stop, probe.max_speed, probe.acceleration).s]
    /\ UNCHANGED simulation_vars

ProfileNext ==
    \/ ProfileAxis
    \/ /\ probe = NoProbe
       /\ \E target \in Workspace("LEFT") : MoveAbsolute("LEFT", target, TRUE)
    \/ /\ probe = NoProbe
       /\ \E delta \in Displacements("LEFT") : MoveRelative("LEFT", delta, TRUE)
    \/ Step
    \/ Finish

ProfileSpec == ProfileInit /\ [][ProfileNext]_vars

\* ---------------------------------------------------------------------------
\* ChipModel.is_stage_colliding on its own: the chip and one stage model,
\* under any two safety distances
\* ---------------------------------------------------------------------------
\* Where the stage model stands: next to, over, in and under the chip
ChipProbePositions ==
    {<<2 * x, 2 * y, z>> : x \in 0..4, y \in 0..1, z \in -3..3}

ChipInit ==
    /\ \E chip_safety_distance \in 0..MaxSafety, fiber_safety_distance \in 0..MaxSafety :
          parameters = [realtime |-> FALSE,
                        fiber_safety_distance |-> fiber_safety_distance,
                        chip_safety_distance |-> chip_safety_distance,
                        sampling_rate |-> 1]
    /\ chip_model = "ChipModel"
    /\ position = [s \in Stages |-> StartPosition(s)]
    /\ model = [s \in Stages |-> PlacedModel(s, StartPosition(s))]
    /\ stage_collision = FALSE
    /\ chip_collision = FALSE
    /\ stage_collision_text = "No stage collision detected"
    /\ chip_collision_text = "No chip collision detected"
    /\ move = NoMove
    /\ last_call = "none"
    /\ last_sleep = NoSleep
    /\ \E o \in Orientations, view_position \in ChipProbePositions :
          probe = [kind |-> "chip and stage", orientation |-> o,
                   model |-> MeshedModel(o, view_position)]

\* self.chip_model.is_stage_colliding(stage_model)
ProbeChipCollision ==
    /\ probe.kind = "chip and stage"
    /\ probe' = [kind |-> "is_stage_colliding",
                 orientation |-> probe.orientation,
                 model |-> probe.model,
                 chip_mesh |-> ChipSafetyDistanceMesh(parameters.chip_safety_distance),
                 stage_mesh |-> SafetyBox(probe.orientation, probe.model),
                 colliding |-> is_stage_colliding(probe.orientation, probe.model)]
    /\ UNCHANGED simulation_vars

ChipNext == ProbeChipCollision

ChipSpec == ChipInit /\ [][ChipNext]_vars

\* ---------------------------------------------------------------------------
\* Simulation.stress_test, on a simulation that may have run moves before
\* ---------------------------------------------------------------------------
Devices == 1..MaxDevices

\* d.input_coordinate and d.output_coordinate, in the world frame: the inputs
\* are where the left stage reaches them, the outputs where the right stage
\* does; every third device lies low.
DeviceCoordinate(s, d) ==
    AbsoluteModelToWorld(absolute_view(s),
        <<Min(d - 1, MaxCoord), 0, IF s = "LEFT" /\ d % 3 = 0 THEN 0 ELSE 1>>)

\* list(combinations(all_devices, 2)): the pairs d1 < d2 in lexicographic order
DevicePairs ==
    LET S == {p \in Devices \X Devices : p[1] < p[2]}
        Before(q, p) == q[1] < p[1] \/ (q[1] = p[1] /\ q[2] < p[2])
    IN [i \in 1..Cardinality(S) |->
           CHOOSE p \in S : Cardinality({q \in S : Before(q, p)}) = i - 1]

\* Where move_to_device takes the stage s: to the coordinate of the device
\* in the stage's frame
DeviceTarget(s, d) == AbsoluteWorldToModel(absolute_view(s), DeviceCoordinate(s, d))

\* stress_test up to its loop: the parameters are set, the collision flags
\* are left as they are
StressTest ==
    /\ probe = NoProbe
    /\ CallerIsFree
    /\ parameters' = [realtime |-> FALSE,
                      fiber_safety_distance |-> FiberSafetyDistance,
                      chip_safety_distance |-> ChipSafetyDistance,
                      sampling_rate |-> MaxRate]
    /\ probe' = [kind |-> "stress_test", pair |-> 0, in_pair |-> FALSE,
                 stage_collisions |-> 0, chip_collisions |-> 0]
    /\ UNCHANGED <<chip_model, position, model, stage_collision, chip_collision,
                   stage_collision_text, chip_collision_text, move, last_call,
                   last_sleep>>

\* One iteration up to move_to_device: _set_stage_model_meshes with the
\* coordinates of d1, _set_chip_mesh, _set_simulation_info
StressBeginPair ==
    /\ probe.kind = "stress_test"
    /\ ~probe.in_pair
    /\ probe.pair < Len(DevicePairs)
    /\ position' = [s \in Stages |->
                       AbsoluteWorldToModel(absolute_view(s),
                           DeviceCoordinate(s, DevicePairs[probe.pair + 1][1]))]
    /\ model' = [s \in Stages |-> PlacedModel(s, position'[s])]
    /\ stage_collision_text' = "No stage collision detected"
    /\ chip_collision_text' = "No chip collision detected"
    /\ probe' = [probe EXCEPT !.pair = @ + 1, !.in_pair = TRUE]
    /\ UNCHANGED <<parameters, chip_model, stage_collision, chip_collision, move,
                   last_call, last_sleep>>

\* self.mover.move_to_device(self.chip, d2._id): the mover moves a stage
\* that is not at the device yet
MoveToDevice(s) ==
    /\ probe.kind = "stress_test"
    /\ probe.in_pair
    /\ position[s] # DeviceTarget(s, DevicePairs[probe.pair][2])
    /\ MoveAbsolute(s, DeviceTarget(s, DevicePairs[probe.pair][2]), TRUE)

\* The rest of the iteration, once move_to_device has returned: the flags
\* are counted and cleared
StressEndPair ==
    /\ probe.kind = "stress_test"
    /\ probe.in_pair
    /\ CallerIsFree
    /\ \A s \in Stages : position[s] = DeviceTarget(s, DevicePairs[probe.pair][2])
    /\ probe' = [probe EXCEPT !.in_pair = FALSE,
                              !.stage_collisions = IF stage_collision THEN @ + 1 ELSE @,
                              !.chip_collisions = IF chip_collision THEN @ + 1 ELSE @]
    /\ stage_collision' = FALSE
    /\ chip_collision' = FALSE
    /\ UNCHANGED <<parameters, chip_model, position, model, stage_collision_text,
                   chip_collision_text, move, last_call, last_sleep>>

\* The moves of a simulation run before the stress test, the stress test,
\* and the steps of the moves of both
StressNext ==
    \/ /\ probe = NoProbe
       /\ \E target \in Workspace("LEFT") : MoveAbsolute("LEFT", target, TRUE)
    \/ StressTest
    \/ StressBeginPair
    \/ \E s \in Stages : MoveToDevice(s)
    \/ StressEndPair
    \/ Step
    \/ Finish

StressSpec == Init /\ [][StressNext]_vars

\* ---------------------------------------------------------------------------
\* The legacy simulator (src/src): StageSimulator and its StageModel
\* ---------------------------------------------------------------------------
\* The positions the legacy stage starts at and is moved to: on both sides
\* of 0 along X
LegacyWorkspace == {<<x, y, z>> : x \in -1..1, y \in 0..1, z \in 0..1}

\* The relative moves of the legacy stage: one unit along X, either way
LegacyDisplacements == {<<1, 0, 0>>, <<-1, 0, 0>>}

\* StageModel.pos(x, y, z) of src/src/Models.py: the new stage_position;
\* "x if x else self.stage_position[0]" takes the old coordinate for every
\* argument that is false
LegacyPos(stage_position, x, y, z) ==
    <<IF x # 0 THEN x ELSE stage_position[1],
      IF y # 0 THEN y ELSE stage_position[2],
      IF z # 0 THEN z ELSE stage_position[3]>>

\* The waypoints of __peform_simulated_movement: the profiles of the three
\* axes, subsampled and padded as in SimulatedStage.__calculate_waypoints
LegacyWaypoints(start, target, sampling_rate) ==
    CalculateWaypoints(start, target, sampling_rate)

\* __register__simulation__: the stage takes the stage_position of its model
LegacyInit ==
    /\ SimulationStarted
    /\ \E start \in LegacyWorkspace, sampling_rate \in 1..MaxRate :
          probe = [kind |-> "legacy", sampling_rate |-> sampling_rate,
                   stage_position |-> start, position |-> start,
                   state |-> "none", waypoints |-> << >>, i |-> 0]

\* __peform_simulated_movement up to its loop
LegacyPerformSimulatedMovement(target) ==
    /\ probe.kind = "legacy"
    /\ probe.state # "running"
    /\ LET w == LegacyWaypoints(probe.position, target, probe.sampling_rate)
       IN probe' = IF w.error = "none"
                   THEN [probe EXCEPT !.state = "running", !.i = 0,
                                      !.waypoints = [k \in 1..Len(w.t) |-> Row(w, k)]]
                   ELSE [probe EXCEPT !.state = IF w.error = "None" THEN "returned"
                                                ELSE w.error,
                                      !.i = 0, !.waypoints = << >>]
    /\ UNCHANGED simulation_vars

\* StageSimulator.move_absolute
LegacyMoveAbsolute ==
    \E target \in LegacyWorkspace : LegacyPerformSimulatedMovement(target)

\* StageSimulator.move_relative: the target is the position plus the argument
LegacyMoveRelative ==
    \E delta \in LegacyDisplacements :
        /\ VecAdd(probe.position, delta) \in LegacyWorkspace
        /\ LegacyPerformSimulatedMovement(VecAdd(probe.position, delta))

\* One iteration of the loop: self.model.pos(x=x[i], y=y[i], z=z[i]) and
\* self.__position_setter([x[i], y[i], z[i]])
LegacyStep ==
    /\ probe.kind = "legacy"
    /\ probe.state = "running"
    /\ probe.i < Len(probe.waypoints)
    /\ probe' = [probe EXCEPT
                    !.i = @ + 1,
                    !.stage_position = LegacyPos(@, probe.waypoints[probe.i + 1][1],
                                                 probe.waypoints[probe.i + 1][2],
                                                 probe.waypoints[probe.i + 1][3]),
                    !.position = probe.waypoints[probe.i + 1]]
    /\ UNCHANGED simulation_vars

\* The loop has run t.size times
LegacyFinish ==
    /\ probe.kind = "legacy"
    /\ probe.state = "running"
    /\ probe.i >= Len(probe.waypoints)
    /\ probe' = [probe EXCEPT !.state = "returned"]
    /\ UNCHANGED simulation_vars

LegacyNext ==
    \/ LegacyMoveAbsolute
    \/ LegacyMoveRelative
    \/ LegacyStep
    \/ LegacyFinish

LegacySpec == LegacyInit /\ [][LegacyNext]_vars

TypeOK ==
    /\ move.stage \in Stages \cup {"none"}
    /\ last_call \in {"none", "running", "returned", "None",
                      "RuntimeError", "TypeError", "ValueError", "KeyboardInterrupt"}

\* ---------------------------------------------------------------------------
\* Properties of the waypoint synchronization (under SyncSpec)
\* ---------------------------------------------------------------------------
\* The profile of axis a, its number of samples, and the target of the axis:
\* the final sample of its profile, or the commanded target when it is empty.
SegLen(a) == Len(move.segs[a].t)
AxisTarget(a) ==
    IF SegLen(a) = 0 THEN move.target[a] ELSE move.segs[a].s[SegLen(a)]
Column(a) == CASE a = 1 -> move.x [] a = 2 -> move.y [] a = 3 -> move.z
EndTime(a) == move.segs[a].t[SegLen(a)]

\* C1: whenever at least one of the three axis profiles is not empty, the
\* synchronization returns, without an error, a time vector t and columns x,
\* y, z of len(t) rows each, whose last row is the target of every axis.
C1_SynchronizedShape ==
    move.kind \in {"synchronized", "failed"} =>
        /\ (\E a \in 1..3 : SegLen(a) > 0) => move.kind = "synchronized"
        /\ move.kind = "synchronized" =>
              /\ Len(move.t) >= 1
              /\ \A a \in 1..3 : Len(Column(a)) = Len(move.t)
              /\ \A a \in 1..3 : Column(a)[Len(move.t)] = AxisTarget(a)

\* C1 witness: profiles of three different lengths, one of them empty, and a
\* rate that does not divide the longest, have been synchronized.
C1_Witness ==
    /\ move.kind = "synchronized"
    /\ SegLen(1) = 2 /\ SegLen(2) = 0 /\ SegLen(3) = 4
    /\ parameters.sampling_rate = 2
    /\ Len(move.x) = Len(move.t)
    /\ Row(move, Len(move.t)) = <<12, 20, 34>>

\* C2: the time vector of the synchronization is strictly increasing.
C2_StrictlyIncreasing ==
    move.kind = "synchronized" =>
        \A k \in 1..(Len(move.t) - 1) : move.t[k] < move.t[k + 1]

\* C4: an axis without a profile is held at its target; any other axis has,
\* at every output time within its profile, the sample its profile has at
\* that time, and its final sample at every output time from the end of its
\* profile on.
C4_ResampledValues ==
    move.kind = "synchronized" =>
        \A a \in 1..3 : \A k \in 1..Len(move.t) :
            IF SegLen(a) = 0
            THEN Column(a)[k] = move.target[a]
            ELSE /\ move.t[k] <= EndTime(a) =>
                       \E j \in 1..SegLen(a) :
                           /\ move.segs[a].t[j] = move.t[k]
                           /\ Column(a)[k] = move.segs[a].s[j]
                 /\ move.t[k] >= EndTime(a) =>
                       Column(a)[k] = move.segs[a].s[SegLen(a)]

\* C4 witness: an axis shorter than the master timeline has been padded, next
\* to an axis without a profile.
C4_Witness ==
    /\ move.kind = "synchronized"
    /\ SegLen(1) = 4 /\ SegLen(2) = 1 /\ SegLen(3) = 0
    /\ parameters.sampling_rate = 1
    /\ move.y = <<21, 21, 21, 21, 21>>
    /\ move.z = <<30, 30, 30, 30, 30>>
    /\ move.x = <<11, 12, 13, 14, 14>>

\* C5: the time vector holds the samples of the profile of the longest
\* duration at the indices 0, N, 2N, ... and then that profile's final time
\* point; its last entry is the latest end time of all axes.
C5_MasterTimeline ==
    move.kind = "synchronized" =>
        LET N == parameters.sampling_rate
            moving == {a \in 1..3 : SegLen(a) > 0}
        IN \E m \in moving :
              /\ \A a \in moving : EndTime(a) <= EndTime(m)
              /\ Len(move.t) = ((SegLen(m) + N - 1) \div N) + 1
              /\ \A k \in 1..(Len(move.t) - 1) :
                    move.t[k] = move.segs[m].t[(k - 1) * N + 1]
              /\ move.t[Len(move.t)] = EndTime(m)

\* C5 witness: the master timeline is the one of the Z axis, the last of
\* the three, and has been decimated.
C5_Witness ==
    /\ move.kind = "synchronized"
    /\ SegLen(1) = 1 /\ SegLen(2) = 2 /\ SegLen(3) = 4
    /\ parameters.sampling_rate = 2
    /\ move.t = <<0, 2 * Dt, 3 * Dt>>

\* ---------------------------------------------------------------------------
\* Properties of the move calls and of the simulation steps (under Spec)
\* ---------------------------------------------------------------------------
Moving == move.stage # "none"
StageCollisionShown == stage_collision_text = "STAGE-STAGE COLLISION DETECTED"
ChipCollisionShown == chip_collision_text = "CHIP-STAGE COLLISION DETECTED"

\* The safety envelope of stage s standing at the model position q
EnvelopeAt(s, q) ==
    SafetyDistanceMesh(s, GetMeshBoxCenter(s, AbsoluteModelToWorld(absolute_view(s), q)),
                       parameters.fiber_safety_distance)

\* Some two stages' envelopes intersect, every stage standing at its position.
SomeStagePairIntersects ==
    \E s1 \in Stages, s2 \in Stages :
        /\ s1 # s2
        /\ Intersects(EnvelopeAt(s1, position[s1]), EnvelopeAt(s2, position[s2]))

\* Some stage's envelope intersects the safety volume of the chip.
SomeStageIntersectsChip ==
    \E s \in Stages :
        Intersects(ChipSafetyDistanceMesh(parameters.chip_safety_distance),
                   EnvelopeAt(s, position[s]))

\* C3: a move whose target is the stage's position on every axis signals
\* NoMotionError to the caller and leaves the stage position and the model as
\* they were.
C3_NoMotionSignalled ==
    [][(\E s \in Stages : \/ MoveRelative(s, <<0, 0, 0>>, TRUE)
                          \/ MoveAbsolute(s, position[s], TRUE))
          => /\ last_call' = "NoMotionError"
             /\ UNCHANGED <<position, model>>]_vars

\* C6: a move during which a collision has been detected still executes every
\* remaining step, one waypoint after the other, and returns with the stage at
\* the last waypoint, the commanded target.
C6_CollisionAdvisory ==
    [][(Moving /\ (stage_collision \/ chip_collision
                     \/ StageCollisionShown \/ ChipCollisionShown))
          => IF move.i < Len(move.t)
             THEN /\ move' = [move EXCEPT !.i = move.i + 1]
                  /\ position'[move.stage] = Row(move, move.i + 1)
             ELSE /\ move' = NoMove
                  /\ last_call' = "returned"
                  /\ position' = position
                  /\ position[move.stage] = move.target]_vars

\* C6 witness: the left stage has moved from X = 0 to X = 2 in three steps; its
\* envelope met the right stage's from the first step on, and the loop has
\* run to the last waypoint all the same.
C6_Witness ==
    /\ move.stage = "LEFT" /\ move.kind = "absolute"
    /\ move.start = <<0, 0, 1>> /\ move.target = <<2, 0, 1>>
    /\ position["RIGHT"] = <<2, 0, 1>>
    /\ Len(move.t) = 3 /\ move.i = 3
    /\ Intersects(EnvelopeAt("LEFT", Row(move, 1)), EnvelopeAt("RIGHT", position["RIGHT"]))
    /\ stage_collision /\ StageCollisionShown
    /\ position["LEFT"] = move.target

\* C7: every accepted move terminates: each step advances the cursor by one
\* and sets the stage's position, once, to the waypoint of the step; the
\* position changes in no other way; after len(t) steps the call returns with
\* the stage at the last waypoint, the commanded target.
C7_MoveTerminates ==
    /\ [][Moving =>
            IF move.i < Len(move.t)
            THEN /\ move' = [move EXCEPT !.i = move.i + 1]
                 /\ position' = [position EXCEPT ![move.stage] = Row(move, move.i + 1)]
            ELSE /\ move.i = Len(move.t)
                 /\ move' = NoMove
                 /\ last_call' = "returned"
                 /\ position' = position
                 /\ position[move.stage] = Row(move, Len(move.t))
                 /\ position[move.stage] = move.target]_vars
    /\ [][~Moving => position' = position]_vars
    /\ [](Moving => Len(move.t) >= 1)
    /\ (Moving ~> ~Moving)

\* C7 witness: the loop of a relative move along Z has run its len(t) steps.
C7_Witness ==
    /\ move.stage = "RIGHT" /\ move.kind = "relative"
    /\ move.start = <<1, 0, 1>> /\ move.target = <<1, 0, 0>>
    /\ move.i = Len(move.t) /\ Len(move.t) = 2
    /\ position["RIGHT"] = <<1, 0, 0>>

\* Some move request on a moving stage is answered with StageBusyError.
BusyRejection ==
    \E s \in Stages : \E target \in Workspace(s) :
        /\ s = move.stage
        /\ \/ MoveAbsolute(s, target, TRUE)
           \/ MoveRelative(s, VecSub(target, position[s]), TRUE)
        /\ last_call' = "StageBusyError"

MoveRequest(s, target) ==
    \/ MoveAbsolute(s, target, TRUE)
    \/ /\ VecSub(target, position[s]) \in Displacements(s)
       /\ MoveRelative(s, VecSub(target, position[s]), TRUE)

C10_StepReport ==
    (Moving /\ move.i >= 1) =>
        /\ StageCollisionShown <=> SomeStagePairIntersects
        /\ ChipCollisionShown <=> SomeStageIntersectsChip

\* C11: the collision state after a step reflects only that step: when no
\* two stage envelopes intersect after a step, stage_collision is not set,
\* and when no stage envelope intersects the chip's volume, chip_collision is
\* not set, whatever earlier steps have detected.
C11_EphemeralCollisionState ==
    (Moving /\ move.i >= 1) =>
        /\ ~SomeStagePairIntersects => ~stage_collision
        /\ ~SomeStageIntersectsChip => ~chip_collision

\* ---------------------------------------------------------------------------
\* Properties of the collision test (under CollideSpec)
\* ---------------------------------------------------------------------------
\* C12: the collision test is symmetric: a.are_colliding(b) equals
\* b.are_colliding(a) for all stage models a and b, with or without meshes.
C12_Symmetric ==
    probe.kind = "are_colliding" => probe.ab = probe.ba

\* C12 witness: a model with its meshes has been tested against one without,
\* both ways.
C12_Witness ==
    /\ probe.kind = "are_colliding"
    /\ probe.a.model.has_mesh /\ ~probe.b.model.has_mesh
    /\ probe.a.orientation = "LEFT" /\ probe.b.orientation = "TOP"
    /\ ~probe.ab /\ ~probe.ba

\* ---------------------------------------------------------------------------
\* Properties of the two stages far apart (under ScenarioSpec)
\* ---------------------------------------------------------------------------
\* C13: with the stages 10,000 apart and envelopes 300 wide, no step of the
\* move of A to X = 100 shows or records a collision, and the move of A to
\* X = 9,950 ends with the envelopes of A and B intersecting, the collision
\* shown and recorded.
C13_Scenario ==
    /\ ~Moving /\ position["LEFT"] = ScenarioStart("LEFT") =>
          /\ AbsoluteModelToWorld(absolute_view("RIGHT"), position["RIGHT"])[1]
                - AbsoluteModelToWorld(absolute_view("LEFT"), position["LEFT"])[1]
                = ScenarioDistance
          /\ SafetyBox("LEFT", model["LEFT"]).hi[2] - SafetyBox("LEFT", model["LEFT"]).lo[2]
                = 2 * 6
          /\ ~stage_collision
    /\ (Moving /\ move.target = ScenarioNear) \/ position["LEFT"] = ScenarioNear =>
          /\ ~stage_collision
          /\ ~StageCollisionShown
          /\ ~Intersects(SafetyBox("LEFT", model["LEFT"]), SafetyBox("RIGHT", model["RIGHT"]))
    /\ position["LEFT"] = ScenarioFar =>
          /\ stage_collision
          /\ StageCollisionShown
          /\ Intersects(SafetyBox("LEFT", model["LEFT"]), SafetyBox("RIGHT", model["RIGHT"]))

\* C13 witness: the move of A to X = 9,950 has run all its steps, after steps
\* that showed no collision, and the collision of A and B is shown.
C13_Witness ==
    /\ move.stage = "LEFT" /\ move.target = ScenarioFar
    /\ move.i = Len(move.t) /\ Len(move.t) > 100
    /\ position["LEFT"] = ScenarioFar
    /\ position["RIGHT"] = ScenarioStart("RIGHT")
    /\ ~Intersects(EnvelopeAt("LEFT", Row(move, 100)), EnvelopeAt("RIGHT", position["RIGHT"]))
    /\ stage_collision /\ StageCollisionShown

\* ---------------------------------------------------------------------------
\* Properties of the views (under ViewSpec)
\* ---------------------------------------------------------------------------
\* C14: for every view, absolute or relative, and every point p,
\* world_to_model(model_to_world(p)) = p and model_to_world(world_to_model(p)) = p.
C14_RoundTrip ==
    probe.kind = "mapped" =>
        /\ probe.to_model_of_to_world = probe.p
        /\ probe.to_world_of_to_model = probe.p

\* C14 witness: a point off the origin has gone both ways through an
\* absolute view that was fitted with a quarter turn and with offsets.
C14_Witness ==
    /\ probe.kind = "mapped" /\ probe.type = "absolute"
    /\ probe.view.rotation = 1
    /\ probe.view.model_offset = <<1, 0, 0>> /\ probe.view.world_offset = <<0, 1, 0>>
    /\ probe.p = <<1, 2, 3>>
    /\ probe.to_world # probe.p /\ probe.to_model # probe.p
    /\ probe.to_model_of_to_world = probe.p
\* The matrix of the rotation by quarter turns about Z, by its rows, the
\* product of a matrix and a vector, and the transposed matrix
RotationMatrix(turns) ==
    LET c == <<1, 0, -1, 0>>[(turns % 4) + 1]
        sn == <<0, 1, 0, -1>>[(turns % 4) + 1]
    IN <<<<c, -sn, 0>>, <<sn, c, 0>>, <<0, 0, 1>>>>

MatVec(m, v) == <<Dot(m[1], v), Dot(m[2], v), Dot(m[3], v)>>

Transpose(m) == [i \in 1..3 |-> [j \in 1..3 |-> m[j][i]]]

\* C15: an absolute view fitted to a calibration maps world = R (local -
\* sourceCentroid) + targetCentroid and local = R^T (world - targetCentroid) +
\* sourceCentroid, the centroids being the means of the calibration's local
\* and world points; model_to_world sends the local centroid to the world
\* centroid and world_to_model the world centroid to the local one.
C15_FittedMapping ==
    (probe.kind = "mapped" /\ probe.type = "absolute") =>
        /\ probe.to_world =
              VecAdd(MatVec(RotationMatrix(probe.view.rotation),
                            VecSub(probe.p, Mean(probe.model_coordinates))),
                     Mean(probe.world_coordinates))
        /\ probe.to_model =
              VecAdd(MatVec(Transpose(RotationMatrix(probe.view.rotation)),
                            VecSub(probe.p, Mean(probe.world_coordinates))),
                     Mean(probe.model_coordinates))
        /\ probe.p = Mean(probe.model_coordinates) =>
              probe.to_world = Mean(probe.world_coordinates)
        /\ probe.p = Mean(probe.world_coordinates) =>
              probe.to_model = Mean(probe.model_coordinates)

\* C15 witness: the local centroid of a calibration with a quarter turn has
\* been mapped to the world centroid, another point.
C15_Witness ==
    /\ probe.kind = "mapped" /\ probe.type = "absolute"
    /\ probe.model_coordinates = <<<<0, 0, 0>>, <<2, 0, 0>>>>
    /\ probe.world_coordinates = <<<<0, 0, 0>>, <<0, 2, 0>>>>
    /\ probe.view.rotation = 1
    /\ probe.p = <<1, 0, 0>>
    /\ probe.to_world = <<0, 1, 0>>

\* C16: fitting an absolute view to lists of different lengths or of fewer
\* than 2 points fails with InsufficientCorrespondenceError, and no view is
\* produced.
C16_InsufficientCorrespondence ==
    (/\ probe.kind \in {"view", "failed"}
     /\ probe.type = "absolute"
     /\ \/ Len(probe.model_coordinates) # Len(probe.world_coordinates)
        \/ Len(probe.model_coordinates) < 2) =>
        /\ probe.kind = "failed"
        /\ probe.error = "InsufficientCorrespondenceError"

\* ---------------------------------------------------------------------------
\* Properties of the pacing (under PaceSpec)
\* ---------------------------------------------------------------------------
\* The simulated time between the waypoint of the next step and the one before
\* it (0 before the first)
TimeToNextWaypoint ==
    move.t[move.i + 1] - (IF move.i = 0 THEN 0 ELSE move.t[move.i])

\* C17: with real-time mode off no step requests a delay; with real-time mode
\* on the delay requested after step i is max(0, t[i] - t[i-1] - render
\* duration of the step), t[-1] being 0: it is not negative and not longer than
\* the simulated time between the two waypoints.
C17_Pacing ==
    [][(Moving /\ move.i < Len(move.t)) =>
          IF parameters.realtime
          THEN /\ last_sleep'.called
               /\ last_sleep'.render_time \in RenderTimes
               /\ last_sleep'.delay =
                     (IF RenderResolution * TimeToNextWaypoint > last_sleep'.render_time
                      THEN RenderResolution * TimeToNextWaypoint - last_sleep'.render_time
                      ELSE 0)
               /\ last_sleep'.delay >= 0
               /\ last_sleep'.delay <= RenderResolution * TimeToNextWaypoint
          ELSE /\ ~last_sleep.called
               /\ ~last_sleep'.called]_vars

\* C17 witness: in real-time mode a step one time unit after the one
\* before, rendered in one tick, has requested a delay of the rest of the unit.
C17_Witness ==
    /\ parameters.realtime
    /\ Moving /\ move.i >= 2
    /\ move.t[move.i] - move.t[move.i - 1] = Dt
    /\ last_sleep.called
    /\ last_sleep.render_time = 1
    /\ last_sleep.delay = RenderResolution * Dt - 1

\* Some two stages' envelopes intersect, every stage s standing at p[s].
StagePairIntersectsAt(p) ==
    \E s1 \in Stages, s2 \in Stages :
        /\ s1 # s2
        /\ Intersects(EnvelopeAt(s1, p[s1]), EnvelopeAt(s2, p[s2]))

\* The envelope of stage s, standing at p[s], intersects the safety volume of
\* the chip.
StageIntersectsChipAt(s, p) ==
    Intersects(ChipSafetyDistanceMesh(parameters.chip_safety_distance), EnvelopeAt(s, p[s]))

C19_StageIndependence ==
    [][(Moving \/ Moving') =>
          /\ \A o \in Stages :
                (o # move.stage /\ o # move'.stage) =>
                   /\ position'[o] = position[o]
                   /\ model'[o].model_position = model[o].model_position
                   /\ model'[o].view_position = model[o].view_position
                   /\ model'[o].has_mesh = model[o].has_mesh
                   /\ SafetyBox(o, model'[o]) = SafetyBox(o, model[o])
          /\ chip_model' = chip_model
          /\ ChipSafetyDistanceMesh(parameters'.chip_safety_distance)
                = ChipSafetyDistanceMesh(parameters.chip_safety_distance)]_vars

\* C19 witness: the right stage, moved before, stands away from its start
\* position, and a move of the left stage has gone through all its steps to
\* a target other than its start.
C19_Witness ==
    /\ move.stage = "LEFT" /\ move.i = Len(move.t) /\ Len(move.t) >= 2
    /\ position["LEFT"] = move.target /\ move.target # move.start
    /\ position["RIGHT"] # StartPosition("RIGHT")
    /\ model["RIGHT"].model_position = position["RIGHT"]
    /\ model["LEFT"].model_position = position["LEFT"]

\* ---------------------------------------------------------------------------
\* An abandoned move (under CancelSpec)
\* ---------------------------------------------------------------------------
\* C20: a move call left by an interrupt after k of its len(t) steps leaves
\* the stage at the waypoint of its last completed step (at its start position
\* when there is none), the model position and the safety envelope of the
\* stage are the ones of that position, and a request made after it for
\* another position is accepted and starts from that position.
C20_AbandonedMove ==
    [][/\ (Moving /\ last_call' = "KeyboardInterrupt") =>
             /\ ~Moving'
             /\ move.i < Len(move.t)
             /\ position'[move.stage] =
                   (IF move.i = 0 THEN move.start ELSE Row(move, move.i))
             /\ position' = position
             /\ model'[move.stage].model_position = position'[move.stage]
             /\ SafetyBox(move.stage, model'[move.stage])
                   = EnvelopeAt(move.stage, position'[move.stage])
       /\ \A s \in Stages : \A target \in Workspace(s) \ {position[s]} :
             (last_call = "KeyboardInterrupt" /\ MoveRequest(s, target)) =>
                /\ last_call' = "running"
                /\ move'.stage = s /\ move'.i = 0
                /\ move'.start = position[s]
                /\ move'.target = target]_vars

\* ---------------------------------------------------------------------------
\* Relative and absolute repositioning (under RepositionSpec)
\* ---------------------------------------------------------------------------
\* C21: from a model whose view position is the one its absolute view gives
\* to its model position, any sequence of addPos(delta_1) .. addPos(delta_n)
\* leaves the same model position, view position and mesh position as the
\* single pos(model_position + delta_1 + ... + delta_n).
C21_RepositioningAgrees ==
    probe.kind = "stage_model" =>
        /\ probe.placed.view_position
              = AbsoluteModelToWorld(probe.absolute_view, probe.placed.model_position)
        /\ probe.by_addPos.model_position = probe.by_pos.model_position
        /\ probe.by_addPos.view_position = probe.by_pos.view_position
        /\ probe.by_addPos.mesh_pos = probe.by_pos.mesh_pos

\* ---------------------------------------------------------------------------
\* Rejected requests (under Spec)
\* ---------------------------------------------------------------------------
\* C22: a call of move_relative or move_absolute with wait_for_stopping =
\* False raises RuntimeError before any step: no loop is entered, and the stage
\* positions, the stage models with their envelopes, the collision flags and
\* texts are as they were.  A request with wait_for_stopping made after it for
\* another position than the stage's is accepted and starts from the
\* stage's position.
C22_RejectedRequest ==
    [][/\ \A s \in Stages :
             (\/ MoveRelative(s, <<0, 0, 0>>, FALSE)
              \/ MoveAbsolute(s, position[s], FALSE)) => last_call' = "RuntimeError"
       /\ last_call' = "RuntimeError" =>
             /\ ~Moving /\ ~Moving'
             /\ UNCHANGED <<position, model, stage_collision, chip_collision,
                            stage_collision_text, chip_collision_text, parameters,
                            chip_model>>
             /\ \A s \in Stages :
                   SafetyBox(s, model'[s]) = SafetyBox(s, model[s])
       /\ \A s \in Stages : \A target \in Workspace(s) \ {position[s]} :
             (last_call = "RuntimeError" /\ MoveRequest(s, target)) =>
                /\ last_call' = "running"
                /\ move'.stage = s /\ move'.i = 0 /\ Len(move'.t) >= 1
                /\ move'.start = position[s]
                /\ move'.target = target]_vars

\* C22 witness: a request has been rejected after an earlier move has left
\* the left stage away from its start position, in the chip's safety volume,
\* with the chip collision flagged.
C22_Witness ==
    /\ last_call = "RuntimeError"
    /\ ~Moving
    /\ position["LEFT"] # StartPosition("LEFT")
    /\ model["LEFT"].model_position = position["LEFT"]
    /\ chip_collision

\* ---------------------------------------------------------------------------
\* Properties of the meshes (under MeshSpec)
\* ---------------------------------------------------------------------------
\* The orientation across the stage position: LEFT and RIGHT across X, BOTTOM
\* and TOP across Y
Opposite(o) ==
    CASE o = "LEFT" -> "RIGHT"
      [] o = "RIGHT" -> "LEFT"
      [] o = "BOTTOM" -> "TOP"
      [] o = "TOP" -> "BOTTOM"

\* The box b (in doubled coordinates) mirrored on axis k at the point p
Mirrored(b, k, p) ==
    [lo |-> [j \in 1..3 |-> IF j = k THEN 4 * p[k] - b.hi[k] ELSE b.lo[j]],
     hi |-> [j \in 1..3 |-> IF j = k THEN 4 * p[k] - b.lo[k] ELSE b.hi[j]]]

\* C23: the fiber box of a stage model contains the stage position in its
\* footprint on X and Y and has it on its bottom face, and the fiber box
\* of the opposite orientation at the same position is its mirror image, on
\* X for LEFT and RIGHT and on Y for BOTTOM and TOP.
C23_BoxPlacement ==
    probe.kind = "meshes" =>
        /\ probe.fiber_mesh.lo[1] <= 2 * probe.view_position[1]
        /\ 2 * probe.view_position[1] <= probe.fiber_mesh.hi[1]
        /\ probe.fiber_mesh.lo[2] <= 2 * probe.view_position[2]
        /\ 2 * probe.view_position[2] <= probe.fiber_mesh.hi[2]
        /\ probe.fiber_mesh.lo[3] = 2 * probe.view_position[3]
        /\ FiberMesh(Opposite(probe.orientation),
                     MeshPosition(probe.implementation, Opposite(probe.orientation),
                                  probe.view_position))
              = Mirrored(probe.fiber_mesh,
                         IF is_vertically_oriented(probe.orientation) THEN 1 ELSE 2,
                         probe.view_position)

C25_TargetExactness ==
    /\ (probe.kind = "profile" /\ probe.start # probe.stop) =>
          /\ Len(probe.s) >= 1
          /\ Len(probe.t) = Len(probe.s)
          /\ probe.s[Len(probe.s)] = probe.stop
    /\ Moving =>
          /\ \A a \in 1..3 :
                move.start[a] # move.target[a] =>
                   /\ Len(move.segs[a].s) >= 1
                   /\ move.segs[a].s[Len(move.segs[a].s)] = move.target[a]
          /\ move.i = Len(move.t) => position[move.stage] = move.target

\* C25 witness: a move of the left stage that changes all three axes has
\* run through its steps.
C25_Witness ==
    /\ move.stage = "LEFT" /\ move.i = Len(move.t)
    /\ \A a \in 1..3 : move.start[a] # move.target[a]
    /\ position["LEFT"] = move.target
    /\ parameters.sampling_rate = 2

\* ---------------------------------------------------------------------------
\* Recorded position and stage model (under Spec)
\* ---------------------------------------------------------------------------
\* C26: from the placement of the stage models on, and after every step of
\* every move_relative and move_absolute, the recorded position of each stage
\* is the model_position of its model; for the moving stage both are the
\* waypoint of the step just completed.
C26_PoseModelAgreement ==
    /\ \A s \in Stages : position[s] = model[s].model_position
    /\ (Moving /\ move.i >= 1) =>
          /\ position[move.stage] = Row(move, move.i)
          /\ model[move.stage].model_position = Row(move, move.i)

\* C26 witness: after moves that have taken both stages away from where they
\* were placed, a move_relative of the right stage has taken its first step,
\* to another position.
C26_Witness ==
    /\ move.stage = "RIGHT" /\ move.kind = "relative" /\ move.i = 1
    /\ move.start # StartPosition("RIGHT")
    /\ position["LEFT"] # StartPosition("LEFT")
    /\ Row(move, 1) # move.start
    /\ model["RIGHT"].model_position = Row(move, 1)

\* The centre of the box b, doubled
Centre2(b) == [k \in 1..3 |-> b.lo[k] + b.hi[k]]

\* C27: the safety distance mesh of a stage model and its fiber mesh have the
\* same centre; on X and on Y the safety distance mesh reaches the safety
\* distance further than the fiber mesh on either side, and on Z the two have
\* the same extent: for every orientation and safety distance.
C27_EnvelopeEnclosesFiber ==
    probe.kind = "meshes" =>
        /\ probe.safety_distance >= 0
        /\ Centre2(probe.safety_distance_mesh) = Centre2(probe.fiber_mesh)
        /\ \A k \in 1..2 :
              /\ probe.safety_distance_mesh.lo[k]
                    = probe.fiber_mesh.lo[k] - 2 * probe.safety_distance
              /\ probe.safety_distance_mesh.hi[k]
                    = probe.fiber_mesh.hi[k] + 2 * probe.safety_distance
        /\ probe.safety_distance_mesh.lo[3] = probe.fiber_mesh.lo[3]
        /\ probe.safety_distance_mesh.hi[3] = probe.fiber_mesh.hi[3]

\* C27 witness: the meshes of a stage model of orientation TOP with a safety
\* distance of 2 have been created; its fiber mesh is longer on Y than on X.
C27_Witness ==
    /\ probe.kind = "meshes"
    /\ probe.implementation = "labext_simulation"
    /\ probe.orientation = "TOP"
    /\ probe.safety_distance = 2
    /\ probe.fiber_mesh.hi[2] - probe.fiber_mesh.lo[2]
          > probe.fiber_mesh.hi[1] - probe.fiber_mesh.lo[1]
    /\ probe.safety_distance_mesh # probe.fiber_mesh

\* ---------------------------------------------------------------------------
\* The safety volume of the chip (under ChipSpec)
\* ---------------------------------------------------------------------------
\* C28: the safety distance mesh of the chip is a cube of side chip_width
\* around the X and Y of the chip position, its top face the safety distance
\* below the Z of the chip position; a stage model whose safety distance mesh
\* has its lowest Z at or above that face is not reported as colliding with
\* the chip, wherever it stands in X and Y.
C28_ChipVolumeBelowPlane ==
    probe.kind = "is_stage_colliding" =>
        /\ \A k \in 1..3 : probe.chip_mesh.hi[k] - probe.chip_mesh.lo[k] = 2 * ChipWidth
        /\ \A k \in 1..2 : probe.chip_mesh.lo[k] + probe.chip_mesh.hi[k] = 4 * ChipPosition[k]
        /\ probe.chip_mesh.hi[3] = 2 * (ChipPosition[3] - parameters.chip_safety_distance)
        /\ probe.chip_mesh.hi[3] <= 2 * ChipPosition[3]
        /\ probe.stage_mesh.lo[3] >= probe.chip_mesh.hi[3] => ~probe.colliding

\* C28 witness: a stage model stands over the chip, the footprint of its
\* safety distance mesh within the one of the chip's cube and its lowest Z
\* above the top face of the cube, and is not reported as colliding; the
\* safety distance of the chip is not 0.
C28_Witness ==
    /\ probe.kind = "is_stage_colliding"
    /\ parameters.chip_safety_distance > 0
    /\ \A k \in 1..2 : /\ probe.stage_mesh.lo[k] < probe.chip_mesh.hi[k]
                       /\ probe.chip_mesh.lo[k] < probe.stage_mesh.hi[k]
    /\ probe.stage_mesh.lo[3] > probe.chip_mesh.hi[3]
    /\ probe.stage_mesh.lo[3] < 2 * ChipPosition[3]
    /\ ~probe.colliding

\* ---------------------------------------------------------------------------
\* The counts of the stress test (under StressSpec)
\* ---------------------------------------------------------------------------
\* C29: in the stress test both collision flags are false when the move of
\* a pair of devices starts; in a step of that move a flag is set exactly
\* when it was set or the step has intersecting volumes, and at the end of
\* the pair a count goes up by one exactly for a set flag, so that a pair is
\* counted iff a collision was detected in its own move; no count exceeds
\* the number of pairs.
C29_StressTestCounts ==
    [][/\ (probe'.kind = "stress_test" /\ probe'.in_pair /\ probe # probe') =>
              ~stage_collision' /\ ~chip_collision'
       /\ (probe.kind = "stress_test" /\ probe.in_pair /\ probe' = probe) =>
              /\ stage_collision' <=>
                    stage_collision \/ (position' # position /\ StagePairIntersectsAt(position'))
              /\ chip_collision' <=>
                    chip_collision \/ (position' # position /\
                                       \E s \in Stages : StageIntersectsChipAt(s, position'))
       /\ (probe.kind = "stress_test" /\ probe.in_pair /\ probe' # probe) =>
              /\ probe'.stage_collisions =
                    probe.stage_collisions + (IF stage_collision THEN 1 ELSE 0)
              /\ probe'.chip_collisions =
                    probe.chip_collisions + (IF chip_collision THEN 1 ELSE 0)
       /\ probe'.kind = "stress_test" =>
              /\ probe'.stage_collisions <= Len(DevicePairs)
              /\ probe'.chip_collisions <= Len(DevicePairs)]_vars

\* ---------------------------------------------------------------------------
\* The model of the legacy simulator follows its stage (under LegacySpec)
\* ---------------------------------------------------------------------------
\* C30: in the legacy simulator, after every step i of a move the
\* stage_position of the model is the waypoint (x[i], y[i], z[i]) that was
\* set as the position of the stage, also when a coordinate of it is 0.
C30_LegacyModelFollows ==
    (probe.kind = "legacy" /\ probe.state = "running" /\ probe.i > 0) =>
        /\ probe.position = probe.waypoints[probe.i]
        /\ probe.stage_position = probe.waypoints[probe.i]

====
